---------------------------- MODULE Spec2Model ----------------------------
(***************************************************************************)
(* A state-machine model of RS232_Raw_Monitor_Icom_Elecraft_V2_ManualTX    *)
(* (src/src/RS232_Raw_Monitor_Icom_Elecraft_V2_ManualTX.ino): the RX       *)
(* accumulation buffer with gap / terminator / capacity flushes, the echo  *)
(* filter, the CI-V frame extractor and decoder, the Elecraft decoder, the *)
(* hex TX validator and the operator command handler, driven by loop().    *)
(*                                                                         *)
(* Bytes and characters are their numeric codes (0..255); a String and a   *)
(* byte array are sequences of codes.  Literals are written with Codes.    *)
(***************************************************************************)
EXTENDS Integers, Sequences, FiniteSets, TLC

VARIABLES
    now,            \* the value millis() returns
    pc,             \* where loop() stands: "rx" (UART drain) or "console"
    wire,           \* bytes waiting in the UART receive FIFO (gRs->available())
    g,              \* Config g
    gRxBuf,         \* gRxBuf[0 .. gRxLen-1]
    gLastRxMs,      \* gLastRxMs
    gLastTx,        \* gLastTx[0 .. gLastTxLen-1]
    gLastTxIsCiv,   \* gLastTxIsCiv
    sent,           \* every byte sequence written to the transport, in order
    rxLog,          \* the RX reports printed by flushRxLine, in order
    txLog,          \* the TX reports and ERR lines printed by the send path
    ingested,       \* every byte handed to onRxByte, in order
    nArrived,       \* number of chunks the line has delivered
    nCmds,          \* number of operator lines handled
    nTicks,         \* number of times the clock has been advanced
    probe           \* the pure-function harness: input and result

engineVars == <<now, pc, wire, g, gRxBuf, gLastRxMs, gLastTx, gLastTxIsCiv,
                sent, rxLog, txLog, ingested, nArrived, nCmds, nTicks>>
vars == <<now, pc, wire, g, gRxBuf, gLastRxMs, gLastTx, gLastTxIsCiv,
          sent, rxLog, txLog, ingested, nArrived, nCmds, nTicks, probe>>

---------------------------------------------------------------------------
(* Characters                                                              *)

\* The printable ASCII characters, codes 32..126, in code order (the grave
\* accent, code 96, cannot be written in a string and is left empty).
Printable ==
    <<" ", "!", "\"", "#", "$", "%", "&", "'", "(", ")", "*", "+", ",", "-", ".", "/",
      "0", "1", "2", "3", "4", "5", "6", "7", "8", "9", ":", ";", "<", "=", ">", "?",
      "@", "A", "B", "C", "D", "E", "F", "G", "H", "I", "J", "K", "L", "M", "N", "O",
      "P", "Q", "R", "S", "T", "U", "V", "W", "X", "Y", "Z", "[", "\\", "]", "^", "_",
      "", "a", "b", "c", "d", "e", "f", "g", "h", "i", "j", "k", "l", "m", "n", "o",
      "p", "q", "r", "s", "t", "u", "v", "w", "x", "y", "z", "{", "|", "}", "~">>

\* The code of a one-character string.
Ord(c) ==
    CASE c = "\t" -> 9
      [] c = "\n" -> 10
      [] c = "\f" -> 12
      [] c = "\r" -> 13
      [] OTHER    -> 31 + (CHOOSE i \in 1..Len(Printable) : Printable[i] = c)

\* The codes of a string given as a tuple of one-character strings.
Codes(t) == [i \in 1..Len(t) |-> Ord(t[i])]

Min(S) == CHOOSE x \in S : \A y \in S : x <= y
Max(S) == CHOOSE x \in S : \A y \in S : x >= y

\* data[i] for a 0-based index, as the C code indexes.
At(data, i) == data[i + 1]

\* The elements first .. last (0-based, inclusive) of data.
Slice(data, first, last) == SubSeq(data, first + 1, last + 1)

\* isspace() of the C library, which String::trim() uses.
IsSpace(c) == c \in {32, 9, 10, 11, 12, 13}

\* String::trim(): leading and trailing isspace() characters removed.
Trim(s) ==
    LET keep == {i \in 1..Len(s) : ~IsSpace(s[i])}
    IN  IF keep = {} THEN <<>> ELSE SubSeq(s, Min(keep), Max(keep))

\* toupper() on one character, String::toUpperCase() on all.
ToUpperChar(c) == IF c >= 97 /\ c <= 122 THEN c - 32 ELSE c
ToUpperCase(s) == [i \in 1..Len(s) |-> ToUpperChar(s[i])]

StartsWith(s, p) == Len(s) >= Len(p) /\ SubSeq(s, 1, Len(p)) = p
EndsWith(s, p) == Len(s) >= Len(p) /\ SubSeq(s, Len(s) - Len(p) + 1, Len(s)) = p

\* String::substring(from): the characters from index `from` (0-based) on.
Substring(s, from) == IF from >= Len(s) THEN <<>> ELSE SubSeq(s, from + 1, Len(s))

\* String::replace(c, ""): every occurrence of character c removed.
RemoveChar(s, c) == SelectSeq(s, LAMBDA x : x # c)

IsDigit(c) == c >= 48 /\ c <= 57

\* The value of a sequence of decimal digit characters (0 when empty).
RECURSIVE DigitsValue(_)
DigitsValue(d) ==
    IF d = <<>> THEN 0
    ELSE 10 * DigitsValue(SubSeq(d, 1, Len(d) - 1)) + (d[Len(d)] - 48)

---------------------------------------------------------------------------
(* Utilities: isHexChar, hexNibble, parseHexString                         *)

isHexChar(c) ==
    (c >= 48 /\ c <= 57) \/ (c >= 65 /\ c <= 70) \/ (c >= 97 /\ c <= 102)

hexNibble(c) ==
    IF c >= 48 /\ c <= 57 THEN c - 48
    ELSE IF c >= 65 /\ c <= 70 THEN 10 + (c - 65)
    ELSE IF c >= 97 /\ c <= 102 THEN 10 + (c - 97)
    ELSE -1

\* The characters parseHexString skips inside the trimmed line:
\* ' ', '\t', '\r', '\n'.
IsHexSeparator(c) == c \in {32, 9, 13, 10}

ERR_EMPTY == "Leere Eingabe."
ERR_CHAR  == "Ungueltiges Zeichen im Hex-String."
ERR_ODD   == "Ungerade Anzahl Hex-Zeichen (Byte fehlt)."
ERR_MANY  == "Zu viele Bytes (max. outMax)."
ERR_BYTE  == "Ungueltiges Hex-Byte."

HexFail(e) == [ok |-> FALSE, bytes |-> <<>>, err |-> e]

\* A faulty validation, against which the order of the checks is tested: it
\* counts the characters before it looks at them.
parseHexStringOddFirst(in, outMax) ==
    LET s       == Trim(in)
        compact == SelectSeq(s, LAMBDA c : ~IsHexSeparator(c))
        bytes   == Len(compact) \div 2
    IN  IF Len(s) = 0 THEN HexFail(ERR_EMPTY)
        ELSE IF Len(compact) % 2 # 0 THEN HexFail(ERR_ODD)
        ELSE IF \E i \in 1..Len(compact) : ~isHexChar(compact[i]) THEN HexFail(ERR_CHAR)
        ELSE IF bytes > outMax THEN HexFail(ERR_MANY)
        ELSE [ok |-> TRUE,
              bytes |-> [k \in 1..bytes |-> hexNibble(At(compact, (k - 1) * 2)) * 16
                                             + hexNibble(At(compact, (k - 1) * 2 + 1))],
              err |-> ""]

\* parseHexString(in, out, outMax, outLen, err): the return value as ok,
\* out[0 .. outLen-1] as bytes, err as err.
parseHexString(in, outMax) ==
    LET s       == Trim(in)
        rest    == SelectSeq(s, LAMBDA c : ~IsHexSeparator(c))
        compact == rest
        bytes   == Len(compact) \div 2
        hi(i)   == hexNibble(At(compact, i * 2))
        lo(i)   == hexNibble(At(compact, i * 2 + 1))
    IN  IF Len(s) = 0 THEN HexFail(ERR_EMPTY)
        ELSE IF \E i \in 1..Len(rest) : ~isHexChar(rest[i]) THEN HexFail(ERR_CHAR)
        ELSE IF Len(compact) % 2 # 0 THEN HexFail(ERR_ODD)
        ELSE IF bytes > outMax THEN HexFail(ERR_MANY)
        ELSE IF \E i \in 0..(bytes - 1) : hi(i) < 0 \/ lo(i) < 0 THEN HexFail(ERR_BYTE)
        ELSE [ok |-> TRUE,
              bytes |-> [k \in 1..bytes |-> hi(k - 1) * 16 + lo(k - 1)],
              err |-> ""]

---------------------------------------------------------------------------
(* CI-V (Icom) helpers                                                     *)

\* The shortest frame isCivFrame accepts and decodeAndPrintCivFrame decodes.
CIV_MIN_LEN == 6

isCivFrame(data) ==
    /\ Len(data) >= CIV_MIN_LEN
    /\ At(data, 0) = \hFE
    /\ At(data, 1) = \hFE
    /\ At(data, Len(data) - 1) = \hFD

\* The positions i at which the outer loop of findCivFrame returns: FE FE at
\* i, i+1 and an FD at some j >= i+2.
CivStarts(data) ==
    {i \in 0..(Len(data) - 2) :
        /\ At(data, i) = \hFE
        /\ At(data, i + 1) = \hFE
        /\ \E j \in (i + 2)..(Len(data) - 1) : At(data, j) = \hFD}

\* Two faulty searches, against which the extraction is tested: one that
\* starts at the last FE FE, one that ends at the last FD.
findCivFrameLastStart(data) ==
    IF CivStarts(data) = {} THEN [found |-> FALSE, start |-> 0, end |-> 0]
    ELSE LET i == Max(CivStarts(data))
             j == Min({k \in (i + 2)..(Len(data) - 1) : At(data, k) = \hFD})
         IN  [found |-> TRUE, start |-> i, end |-> j]
findCivFrameLastEnd(data) ==
    IF CivStarts(data) = {} THEN [found |-> FALSE, start |-> 0, end |-> 0]
    ELSE LET i == Min(CivStarts(data))
             j == Max({k \in (i + 2)..(Len(data) - 1) : At(data, k) = \hFD})
         IN  [found |-> TRUE, start |-> i, end |-> j]

\* A faulty search, against which the shape of the spans is tested: it takes
\* a single FE for the start of a frame.
findCivFrameOneSentinel(data) ==
    LET starts == {i \in 0..(Len(data) - 2) :
                      /\ At(data, i) = \hFE
                      /\ \E j \in (i + 2)..(Len(data) - 1) : At(data, j) = \hFD}
    IN  IF starts = {} THEN [found |-> FALSE, start |-> 0, end |-> 0]
        ELSE LET i == Min(starts)
                 j == Min({k \in (i + 2)..(Len(data) - 1) : At(data, k) = \hFD})
             IN  [found |-> TRUE, start |-> i, end |-> j]

\* findCivFrame(data, len, start, end): the return value as found; start is
\* the first i of the outer loop that returns, end the first FD from start+2.
findCivFrame(data) ==
    IF CivStarts(data) = {} THEN [found |-> FALSE, start |-> 0, end |-> 0]
    ELSE LET i == Min(CivStarts(data))
             j == Min({k \in (i + 2)..(Len(data) - 1) : At(data, k) = \hFD})
         IN  [found |-> TRUE, start |-> i, end |-> j]

\* bcdToInt2(b): -1 when a nibble is not a decimal digit.
\* Two faulty conversions, against which the frequency decode is tested: one
\* that takes the nibbles in the wrong order, one that takes any nibble.
bcdToInt2Swapped(b) ==
    LET lo == b % 16
        hi == (b \div 16) % 16
    IN  IF lo > 9 \/ hi > 9 THEN -1 ELSE lo * 10 + hi
bcdToInt2Unchecked(b) == ((b \div 16) % 16) * 10 + (b % 16)

bcdToInt2(b) ==
    LET lo == b % 16
        hi == (b \div 16) % 16
    IN  IF lo > 9 \/ hi > 9 THEN -1 ELSE hi * 10 + lo

\* 0xFFFFFFFF = 4294967295 as (hz / 1000000, hz % 1000000).
U32_MAX_MHZ == 4294
U32_MAX_REM == 967295

NoHz == [ok |-> FALSE, mhz |-> 0, rem |-> 0]

\* decodeCivFreqHz(b5, hzOut): the return value as ok.  hz has ten decimal
\* digits, more than the checker's 32-bit integers hold, and is carried as
\* the two numbers printHzAsMHz prints: mhz = hz / 1000000 (the digit pairs
\* of b5[4], b5[3]) and rem = hz % 1000000 (those of b5[2], b5[1], b5[0]).
decodeCivFreqHz(b5) ==
    LET v(i) == bcdToInt2(At(b5, i))
        mhz  == v(4) * 100 + v(3)
        rem  == v(2) * 10000 + v(1) * 100 + v(0)
    IN  IF \E i \in 0..4 : v(i) < 0 THEN NoHz
        ELSE IF mhz > U32_MAX_MHZ \/ (mhz = U32_MAX_MHZ /\ rem > U32_MAX_REM) THEN NoHz
        ELSE [ok |-> TRUE, mhz |-> mhz, rem |-> rem]

\* A faulty mode table, against which the mode decode is tested: AM and CW
\* change places.
civModeNameSwapped(mode) ==
    CASE mode = 0 -> "LSB"
      [] mode = 1 -> "USB"
      [] mode = 2 -> "CW"
      [] mode = 3 -> "AM"
      [] mode = 4 -> "RTTY"
      [] mode = 5 -> "FM"
      [] mode = 6 -> "WFM"
      [] mode = 7 -> "CW-R"
      [] mode = 8 -> "RTTY-R"
      [] OTHER    -> "UNKNOWN"

civModeName(mode) ==
    CASE mode = 0 -> "LSB"
      [] mode = 1 -> "USB"
      [] mode = 2 -> "AM"
      [] mode = 3 -> "CW"
      [] mode = 4 -> "RTTY"
      [] mode = 5 -> "FM"
      [] mode = 6 -> "WFM"
      [] mode = 7 -> "CW-R"
      [] mode = 8 -> "RTTY-R"
      [] OTHER    -> "UNKNOWN"

\* A faulty comparison, against which the echo mark is tested: it compares
\* the lengths and not the bytes.
isEchoOfLastTxLengthOnly(civ, lastTx, lastTxIsCiv) ==
    lastTxIsCiv /\ Len(lastTx) = Len(civ)

\* isEchoOfLastTx(civ, civLen) against the record (lastTx, lastTxIsCiv).
isEchoOfLastTx(civ, lastTx, lastTxIsCiv) ==
    IF ~lastTxIsCiv \/ Len(lastTx) # Len(civ) THEN FALSE
    ELSE \A i \in 0..(Len(civ) - 1) : At(lastTx, i) = At(civ, i)

\* One decode summary line "    <dirTag> CI-V: to=.. from=.. cmd=.. [ (ECHO)]
\* [  -> <what>: <value>]".  what = "" when no payload is interpreted; err
\* marks "(decode error)"; FILT is shown only by the two mode rules.
CivLine(dirTag, civ, isEcho, what, hz, mode, filt) ==
    [dir |-> dirTag, proto |-> "CI-V",
     to |-> At(civ, 2), from |-> At(civ, 3), cmd |-> At(civ, 4),
     echo |-> isEcho, what |-> what,
     err |-> (what \in {"SET FREQ", "FREQ"} /\ ~hz.ok),
     mhz |-> hz.mhz, rem |-> hz.rem, mode |-> mode, filt |-> filt]

\* A faulty decoder, against which the classification is tested: it takes
\* every frame of command FA or FB for an ACK or a NAK, whatever its length.
decodeAndPrintCivFrameAnyLen(civ, dirTag, isEcho) ==
    LET civLen == Len(civ)
        cmd    == At(civ, 4)
        hz     == decodeCivFreqHz(Slice(civ, 5, 9))
        mode   == civModeName(At(civ, 5))
        filt   == IF civLen >= 8 THEN At(civ, 6) ELSE 0
        L(what, h, m, f) == <<CivLine(dirTag, civ, isEcho, what, h, m, f)>>
    IN  IF civLen < CIV_MIN_LEN THEN <<>>
        ELSE IF cmd = \hFA THEN L("ACK (FA)", NoHz, "", 0)
        ELSE IF cmd = \hFB THEN L("NAK (FB)", NoHz, "", 0)
        ELSE IF cmd = \h00 /\ civLen >= 11 THEN L("SET FREQ", hz, "", 0)
        ELSE IF cmd = \h03 /\ civLen >= 11 THEN L("FREQ", hz, "", 0)
        ELSE IF cmd = \h04 /\ civLen >= 7 THEN L("MODE", NoHz, mode, filt)
        ELSE IF cmd = \h01 /\ civLen >= 7 THEN L("SET MODE", NoHz, mode, filt)
        ELSE L("", NoHz, "", 0)

\* decodeAndPrintCivFrame(civ, civLen, dirTag, isEcho): the lines it prints,
\* none for a span shorter than six bytes.
decodeAndPrintCivFrame(civ, dirTag, isEcho) ==
    LET civLen == Len(civ)
        cmd    == At(civ, 4)
        hz     == decodeCivFreqHz(Slice(civ, 5, 9))
        mode   == civModeName(At(civ, 5))
        filt   == IF civLen >= 8 THEN At(civ, 6) ELSE 0
        L(what, h, m, f) == <<CivLine(dirTag, civ, isEcho, what, h, m, f)>>
    IN  IF civLen < CIV_MIN_LEN THEN <<>>
        ELSE IF cmd = \hFA /\ civLen = 6 THEN L("ACK (FA)", NoHz, "", 0)
        ELSE IF cmd = \hFB /\ civLen = 6 THEN L("NAK (FB)", NoHz, "", 0)
        ELSE IF cmd = \h00 /\ civLen >= 11 THEN L("SET FREQ", hz, "", 0)
        ELSE IF cmd = \h03 /\ civLen >= 11 THEN L("FREQ", hz, "", 0)
        ELSE IF cmd = \h04 /\ civLen >= 7 THEN L("MODE", NoHz, mode, filt)
        ELSE IF cmd = \h01 /\ civLen >= 7 THEN L("SET MODE", NoHz, mode, filt)
        ELSE L("", NoHz, "", 0)

\* A faulty pass, against which the order of the spans is tested: it moves
\* the end of the span by the cursor but not its start.
ScanAtStartNotMoved(p, cursor) ==
    LET f == findCivFrame(Slice(p, cursor, Len(p) - 1))
    IN  [found |-> f.found, s |-> f.start, e |-> f.end + cursor]

\* One pass of the frame loop of flushRxLine / txPrintCommon at `cursor`:
\* findCivFrame on p + cursor, then s += cursor, e += cursor.
ScanAt(p, cursor) ==
    LET f == findCivFrame(Slice(p, cursor, Len(p) - 1))
    IN  [found |-> f.found, s |-> f.start + cursor, e |-> f.end + cursor]

\* The frame loop to its end: the spans it extracts, as <<s, e>> pairs, in
\* the order it extracts them.
RECURSIVE FrameSpansFrom(_, _)
FrameSpansFrom(p, cursor) ==
    IF ~(cursor < Len(p)) THEN <<>>
    ELSE LET f == ScanAt(p, cursor)
         IN  IF ~f.found THEN <<>>
             ELSE <<(<<f.s, f.e>>)>> \o FrameSpansFrom(p, f.e + 1)

FrameSpans(p) == FrameSpansFrom(p, 0)

\* The frames of p, each the bytes civ[0 .. civLen-1] of one extracted span.
ExtractFrames(p) ==
    [k \in 1..Len(FrameSpans(p)) |-> Slice(p, FrameSpans(p)[k][1], FrameSpans(p)[k][2])]

RECURSIVE Flatten(_)
Flatten(ss) == IF ss = <<>> THEN <<>> ELSE Head(ss) \o Flatten(Tail(ss))

\* The frame loop of flushRxLine: every extracted frame decoded with tag RX,
\* marked as echo when the filter is on and it equals the last-TX record.
DecodeRxFrames(p, echoFilter, lastTx, lastTxIsCiv) ==
    Flatten([k \in 1..Len(ExtractFrames(p)) |->
        LET civ == ExtractFrames(p)[k]
        IN  decodeAndPrintCivFrame(civ, "RX",
                echoFilter /\ isEchoOfLastTx(civ, lastTx, lastTxIsCiv))])

\* The frame loop of txPrintCommon: tag TX, never marked as echo.
DecodeTxFrames(bytes) ==
    Flatten([k \in 1..Len(ExtractFrames(bytes)) |->
        decodeAndPrintCivFrame(ExtractFrames(bytes)[k], "TX", FALSE)])

---------------------------------------------------------------------------
(* Elecraft helpers                                                        *)

SEMI == Codes(<<";">>)

\* A faulty mode table, against which the dispatch is tested: the codes of
\* the CI-V table.
eleModeNameFromCodeAsCiv(n) == civModeName(n)

eleModeNameFromCode(n) ==
    CASE n = 1 -> "LSB"
      [] n = 2 -> "USB"
      [] n = 3 -> "CW"
      [] n = 4 -> "FM"
      [] n = 5 -> "AM"
      [] n = 6 -> "DATA"
      [] n = 7 -> "CW-REV"
      [] n = 9 -> "DATA-REV"
      [] OTHER -> "UNKNOWN"

\* The number of leading white-space characters, digits, zeros of s.
LeadingSpaces(s) == Min({i \in 1..Len(s) : ~IsSpace(s[i])} \cup {Len(s) + 1}) - 1
LeadingDigits(s) == Min({i \in 1..Len(s) : ~IsDigit(s[i])} \cup {Len(s) + 1}) - 1
LeadingZeros(s)  == Min({i \in 1..Len(s) : s[i] # 48} \cup {Len(s) + 1}) - 1

\* String::toInt(), that is atol(): leading white space, an optional sign,
\* then the longest run of digits; 0 when there is none.  A run of more than
\* nine significant digits stands for a value of at least 10^9, beyond the
\* checker's integers: it is given as LONG_MAX, which every caller treats
\* alike (out of range, unknown code, non-zero).
ToInt(s) ==
    LET t      == SubSeq(s, LeadingSpaces(s) + 1, Len(s))
        signed == t # <<>> /\ t[1] \in {43, 45}
        u      == IF signed THEN Tail(t) ELSE t
        d      == SubSeq(u, 1, LeadingDigits(u))
        z      == SubSeq(d, LeadingZeros(d) + 1, Len(d))
        mag    == IF Len(z) > 9 THEN 2147483647 ELSE DigitsValue(z)
    IN  IF signed /\ t[1] = 45 THEN 0 - mag ELSE mag

\* One decode summary line "    <dirTag> ELE: <m>[  -> <what>[ <value>]]".
EleLine(dirTag, m, what, mhz, rem, mode) ==
    [dir |-> dirTag, proto |-> "ELE", text |-> m, what |-> what,
     mhz |-> mhz, rem |-> rem, mode |-> mode]

\* decodeAndPrintElecraft(msg, dirTag): the line it prints.  hz is a uint64
\* built from the digits; it is carried as mhz = hz / 1000000 and
\* rem = hz % 1000000, the integer and fraction digits of
\* Serial.print(hz / 1000000.0, 6) (exact below 2^53; lines of the model are
\* far shorter than the twenty digits that wrap a uint64).
decodeAndPrintElecraft(msg, dirTag) ==
    LET m0     == Trim(msg)
        m      == IF ~EndsWith(m0, SEMI) THEN m0 \o SEMI ELSE m0
        up     == ToUpperCase(m)
        isA    == StartsWith(up, Codes(<<"F", "A">>))
        digits == RemoveChar(Substring(up, 2), SEMI[1])
        allDigits == Len(digits) > 0 /\ \A i \in 1..Len(digits) : IsDigit(digits[i])
        cut    == IF Len(digits) > 6 THEN Len(digits) - 6 ELSE 0
        rest   == RemoveChar(Substring(up, 2), SEMI[1])
        n      == ToInt(rest)
    IN  IF StartsWith(up, Codes(<<"F", "A">>)) \/ StartsWith(up, Codes(<<"F", "B">>))
        THEN IF allDigits /\ Len(digits) >= 5
             THEN EleLine(dirTag, m, IF isA THEN "VFO A FREQ" ELSE "VFO B FREQ",
                          DigitsValue(SubSeq(digits, 1, cut)),
                          DigitsValue(SubSeq(digits, cut + 1, Len(digits))), "")
             ELSE EleLine(dirTag, m,
                          IF isA THEN "VFO A FREQ (GET/SET)" ELSE "VFO B FREQ (GET/SET)",
                          0, 0, "")
        ELSE IF StartsWith(up, Codes(<<"M", "D">>))
        THEN EleLine(dirTag, m, "MODE", 0, 0, eleModeNameFromCode(n))
        ELSE IF up = Codes(<<"T", "X", ";">>) THEN EleLine(dirTag, m, "PTT: ON (TX)", 0, 0, "")
        ELSE IF up = Codes(<<"R", "X", ";">>) THEN EleLine(dirTag, m, "PTT: OFF (RX)", 0, 0, "")
        ELSE EleLine(dirTag, m, "", 0, 0, "")

\* A faulty Elecraft loop, against which the count of summaries is tested: it
\* passes over a terminator that ends an empty message.
RECURSIVE EleMessagesFromSkipEmpty(_, _, _)
EleMessagesFromSkipEmpty(p, i, accum) ==
    IF ~(i < Len(p)) THEN <<>>
    ELSE LET c == At(p, i)
         IN  IF c = 13 \/ c = 10 THEN EleMessagesFromSkipEmpty(p, i + 1, accum)
             ELSE IF c = 59
                  THEN (IF accum = <<>> THEN <<>> ELSE <<accum \o <<c>> >>)
                       \o EleMessagesFromSkipEmpty(p, i + 1, <<>>)
                  ELSE EleMessagesFromSkipEmpty(p, i + 1, accum \o <<c>>)

\* The Elecraft loop of flushRxLine over p[i .. len-1] with `accum` so far:
\* CR and LF are skipped, every ';' hands accum to the decoder and empties
\* it; what follows the last ';' is decoded by nobody.
RECURSIVE EleMessagesFrom(_, _, _)
EleMessagesFrom(p, i, accum) ==
    IF ~(i < Len(p)) THEN <<>>
    ELSE LET c == At(p, i)
         IN  IF c = 13 \/ c = 10 THEN EleMessagesFrom(p, i + 1, accum)
             ELSE IF c = SEMI[1]
                  THEN <<accum \o <<c>> >> \o EleMessagesFrom(p, i + 1, <<>>)
                  ELSE EleMessagesFrom(p, i + 1, accum \o <<c>>)

EleMessages(p) == EleMessagesFrom(p, 0, <<>>)

DecodeRxEle(p) ==
    [k \in 1..Len(EleMessages(p)) |-> decodeAndPrintElecraft(EleMessages(p)[k], "RX")]

---------------------------------------------------------------------------
(* Defaults / Config                                                       *)

\* Defaults::RX_BUF_MAX (512) and Defaults::TX_MAX_BYTES (256), scaled down
\* so that a full buffer and an over-long transmission are reached; the code
\* depends on them only through comparisons with lengths.
RX_BUF_MAX   == 12
TX_MAX_BYTES == 6

\* Defaults::RX_GAP_FLUSH_MS
RX_GAP_FLUSH_MS == 25

\* Config g, as the struct initialises it (the fields no command changes,
\* usbBaud, uartNum and rsCfg, are left out).
DefaultConfig ==
    [rsBaud |-> 9600, rxPin |-> 9, txPin |-> 10,
     rxInvert |-> FALSE, txInvert |-> FALSE,
     showAscii |-> TRUE, showTsMs |-> TRUE,
     rxGapFlushMs |-> RX_GAP_FLUSH_MS,
     civDecode |-> TRUE, civEchoFilter |-> TRUE,
     proto |-> "ICOM", txFormat |-> "FMT_HEX"]

\* The program state the handlers read and write, as one record.
Cur ==
    [now |-> now, wire |-> wire, g |-> g, gRxBuf |-> gRxBuf,
     gLastRxMs |-> gLastRxMs, gLastTx |-> gLastTx, gLastTxIsCiv |-> gLastTxIsCiv,
     sent |-> sent, rxLog |-> rxLog, txLog |-> txLog]

\* The next state is the record S.
Commit(S) ==
    /\ now' = S.now
    /\ wire' = S.wire
    /\ g' = S.g
    /\ gRxBuf' = S.gRxBuf
    /\ gLastRxMs' = S.gLastRxMs
    /\ gLastTx' = S.gLastTx
    /\ gLastTxIsCiv' = S.gLastTxIsCiv
    /\ sent' = S.sent
    /\ rxLog' = S.rxLog
    /\ txLog' = S.txLog

gRxLen == Len(gRxBuf)
gLastTxLen == Len(gLastTx)

---------------------------------------------------------------------------
(* RX grouping / printing                                                  *)

\* A faulty echo filter, against which the strip is tested: it also strips a
\* buffer that equals the last-TX record.
EchoStartOffsetExact(S) ==
    IF /\ S.g.civDecode /\ S.g.civEchoFilter /\ S.gLastTxIsCiv
       /\ Len(S.gRxBuf) >= Len(S.gLastTx) /\ Len(S.gLastTx) > 0
       /\ SubSeq(S.gRxBuf, 1, Len(S.gLastTx)) = S.gLastTx
    THEN Len(S.gLastTx)
    ELSE 0

\* The echo filter at the head of flushRxLine: startOffset, which is
\* gLastTxLen when removedEchoAtStart and 0 otherwise.
EchoStartOffset(S) ==
    LET rxLen == Len(S.gRxBuf)
        txLen == Len(S.gLastTx)
    IN  IF /\ S.g.civDecode /\ S.g.civEchoFilter /\ S.gLastTxIsCiv
           /\ rxLen >= txLen /\ txLen > 0
           /\ \A i \in 0..(txLen - 1) : At(S.gRxBuf, i) = At(S.gLastTx, i)
           /\ rxLen > txLen
        THEN txLen
        ELSE 0

\* The report flushRxLine prints: the "[ms] RX: <hex> |ascii|" line of the
\* bytes from startOffset on (shown), the echo notice, the decode lines.
\* handed is the whole buffer the flush was given.
RxReport(S) ==
    LET startOffset == EchoStartOffset(S)
        p == Slice(S.gRxBuf, startOffset, Len(S.gRxBuf) - 1)
    IN  [at |-> S.now, ts |-> S.g.showTsMs, ascii |-> S.g.showAscii,
         handed |-> S.gRxBuf, shown |-> p, notice |-> startOffset > 0,
         civ |-> IF S.g.proto = "ICOM" /\ S.g.civDecode
                 THEN DecodeRxFrames(p, S.g.civEchoFilter, S.gLastTx, S.gLastTxIsCiv)
                 ELSE <<>>,
         ele |-> IF S.g.proto = "ELE" THEN DecodeRxEle(p) ELSE <<>>]

flushRxLine(S) ==
    IF Len(S.gRxBuf) = 0 THEN S
    ELSE [S EXCEPT !.rxLog = Append(@, RxReport(S)), !.gRxBuf = <<>>]

\* A faulty gap condition, against which the flush time is tested: reached
\* already when the elapsed time equals the threshold.
GapReached(S) ==
    Len(S.gRxBuf) > 0 /\ (S.now - S.gLastRxMs) >= S.g.rxGapFlushMs

\* The gap condition of onRxByte and of loop().  now - gLastRxMs is a uint32
\* subtraction; gLastRxMs is an earlier reading of millis() and the clock of
\* the model stays far below 2^32, so the difference is the elapsed time.
GapExceeded(S) ==
    Len(S.gRxBuf) > 0 /\ (S.now - S.gLastRxMs) > S.g.rxGapFlushMs

\* Two faulty stores, against which the buffer properties are tested: one that
\* appends without the flush, one that drops the byte a full buffer cannot
\* take.
StoreByteNoFlush(S, b) == [S EXCEPT !.gRxBuf = Append(@, b)]
StoreByteDrop(S, b) ==
    IF Len(S.gRxBuf) < RX_BUF_MAX THEN [S EXCEPT !.gRxBuf = Append(@, b)] ELSE S

\* A faulty store, against which the forced flush is tested: it flushes the
\* full buffer and forgets the byte.
StoreByteFlushOnly(S, b) ==
    IF Len(S.gRxBuf) < RX_BUF_MAX
    THEN [S EXCEPT !.gRxBuf = Append(@, b)]
    ELSE flushRxLine(S)

\* The store of onRxByte: into a buffer with room, or after a flush.
StoreByte(S, b) ==
    IF Len(S.gRxBuf) < RX_BUF_MAX
    THEN [S EXCEPT !.gRxBuf = Append(@, b)]
    ELSE [flushRxLine(S) EXCEPT !.gRxBuf = Append(@, b)]

\* A faulty ingest, against which the terminator flush is tested: it leaves
\* the terminator in the buffer for the gap timer.
onRxByteNoTerminator(S, b) ==
    LET S1 == IF GapExceeded(S) THEN flushRxLine(S) ELSE S
        S2 == [S1 EXCEPT !.gLastRxMs = S.now]
    IN  StoreByte(S2, b)

onRxByte(S, b) ==
    LET S1 == IF GapExceeded(S) THEN flushRxLine(S) ELSE S
        S2 == [S1 EXCEPT !.gLastRxMs = S.now]
        S3 == StoreByte(S2, b)
    IN  IF b = SEMI[1] /\ S3.g.proto = "ELE" THEN flushRxLine(S3) ELSE S3

---------------------------------------------------------------------------
(* TX / Command handling                                                   *)

\* txPrintCommon(bytes, len, asciiLineOrNull): the TX report appended.
\* isAscii says asciiLineOrNull is not null, and then it points to line.
txPrintCommon(S, bytes, isAscii, line) ==
    [S EXCEPT !.txLog = Append(@,
        [kind |-> "TX", err |-> "", at |-> S.now,
         ts |-> S.g.showTsMs, ascii |-> S.g.showAscii, bytes |-> bytes,
         civ |-> IF ~isAscii /\ S.g.civDecode THEN DecodeTxFrames(bytes) ELSE <<>>,
         ele |-> IF isAscii THEN <<decodeAndPrintElecraft(line, "TX")>> ELSE <<>>])]

\* The "ERR: <err>" line of a rejected send.
ErrReport(S, e) ==
    [kind |-> "ERR", err |-> e, at |-> S.now,
     ts |-> S.g.showTsMs, ascii |-> S.g.showAscii, bytes |-> <<>>,
     civ |-> <<>>, ele |-> <<>>]

\* The first n elements of s, all of s when it has fewer.
Prefix(s, n) == SubSeq(s, 1, IF Len(s) < n THEN Len(s) ELSE n)

\* A faulty send, against which the rejection is tested: it resets the
\* last-TX record before it validates the line.
sendHexLineRecordFirst(S, s) ==
    LET r  == parseHexString(s, TX_MAX_BYTES)
        S0 == [S EXCEPT !.gLastTx = <<>>, !.gLastTxIsCiv = FALSE]
    IN  IF ~r.ok THEN [S0 EXCEPT !.txLog = Append(@, ErrReport(S, r.err))]
        ELSE txPrintCommon(
                [S0 EXCEPT !.gLastTx = Prefix(r.bytes, TX_MAX_BYTES),
                           !.gLastTxIsCiv = isCivFrame(r.bytes),
                           !.sent = Append(@, r.bytes)],
                r.bytes, FALSE, <<>>)

sendHexLine(S, s) ==
    LET r == parseHexString(s, TX_MAX_BYTES)
    IN  IF ~r.ok THEN [S EXCEPT !.txLog = Append(@, ErrReport(S, r.err))]
        ELSE txPrintCommon(
                [S EXCEPT !.gLastTx = Prefix(r.bytes, TX_MAX_BYTES),
                          !.gLastTxIsCiv = isCivFrame(r.bytes),
                          !.sent = Append(@, r.bytes)],
                r.bytes, FALSE, <<>>)

\* A faulty ASCII send, against which the raw path is tested: it completes
\* the text with a terminator before it transmits.
sendAsciiRawTerminated(S, s0) ==
    LET t     == Trim(s0)
        s     == IF ~EndsWith(t, <<59>>) THEN t \o <<59>> ELSE t
        bytes == Prefix(s, TX_MAX_BYTES)
    IN  txPrintCommon(
            [S EXCEPT !.sent = Append(@, s),
                      !.gLastTx = Prefix(bytes, TX_MAX_BYTES),
                      !.gLastTxIsCiv = isCivFrame(bytes)],
            bytes, TRUE, s)

sendAsciiRaw(S, s0) ==
    LET s     == Trim(s0)
        bytes == Prefix(s, TX_MAX_BYTES)
    IN  txPrintCommon(
            [S EXCEPT !.sent = Append(@, s),
                      !.gLastTx = Prefix(bytes, TX_MAX_BYTES),
                      !.gLastTxIsCiv = isCivFrame(bytes)],
            bytes, TRUE, s)

startsWithCmd(s, cmd) ==
    LET u == ToUpperCase(Trim(s))
        c == ToUpperCase(cmd)
    IN  u = c \/ StartsWith(u, c \o Codes(<<" ">>))

\* A faulty protocol parser, against which the rejection of a configuration
\* command is tested: it takes an unknown name for ICOM.
parseProtoStrictDefaultIcom(arg) ==
    LET a == ToUpperCase(Trim(arg))
    IN  IF a = Codes(<<"E", "L", "E">>)
           \/ a = Codes(<<"E", "L", "E", "C", "R", "A", "F", "T">>)
        THEN [ok |-> TRUE, proto |-> "ELE"]
        ELSE [ok |-> TRUE, proto |-> "ICOM"]

parseProtoStrict(arg) ==
    LET a == ToUpperCase(Trim(arg))
    IN  IF a = Codes(<<"I", "C", "O", "M">>) THEN [ok |-> TRUE, proto |-> "ICOM"]
        ELSE IF a = Codes(<<"E", "L", "E">>)
                \/ a = Codes(<<"E", "L", "E", "C", "R", "A", "F", "T">>)
             THEN [ok |-> TRUE, proto |-> "ELE"]
        ELSE [ok |-> FALSE, proto |-> "ICOM"]

sendElecraftCat(S, s0) ==
    LET s == Trim(s0)
    IN  sendAsciiRaw(S, IF ~EndsWith(s, SEMI) THEN s \o SEMI ELSE s)

\* beginRs232() once setup() has run (gRs is set): gRs->end(), which drops
\* what the UART still holds, delay(50), and begin() with the settings of g.
beginRs232(S) == [S EXCEPT !.wire = <<>>, !.now = @ + 50]

\* String::indexOf(' '): the 0-based index of the first blank, -1 if none.
IndexOfBlank(s) ==
    IF \E i \in 1..Len(s) : s[i] = 32
    THEN Min({i \in 1..Len(s) : s[i] = 32}) - 1
    ELSE -1

\* The command words and fixed lines of handleCommand.
W_HELP     == Codes(<<"H", "E", "L", "P">>)
W_QMARK    == Codes(<<"?">>)
W_HELPICOM == Codes(<<"H", "E", "L", "P", " ", "I", "C", "O", "M">>)
W_HELPELE  == Codes(<<"H", "E", "L", "P", " ", "E", "L", "E">>)
W_HELPELEC == Codes(<<"H", "E", "L", "P", " ", "E", "L", "E", "C", "R", "A", "F", "T">>)
W_INFO     == Codes(<<"I", "N", "F", "O">>)
W_RESTART  == Codes(<<"R", "E", "S", "T", "A", "R", "T">>)
W_PROTO    == Codes(<<"P", "R", "O", "T", "O">>)
W_TXFMT    == Codes(<<"T", "X", "F", "M", "T">>)
W_FORMAT   == Codes(<<"F", "O", "R", "M", "A", "T">>)
W_HEX      == Codes(<<"H", "E", "X">>)
W_ASCII    == Codes(<<"A", "S", "C", "I", "I">>)
W_BAUD     == Codes(<<"B", "A", "U", "D">>)
W_PINS     == Codes(<<"P", "I", "N", "S">>)
W_INVERT   == Codes(<<"I", "N", "V", "E", "R", "T">>)
W_TS       == Codes(<<"T", "S">>)
W_GAP      == Codes(<<"G", "A", "P">>)
W_CIV      == Codes(<<"C", "I", "V">>)
W_ECHO     == Codes(<<"E", "C", "H", "O">>)
W_FREQQ    == Codes(<<"F", "R", "E", "Q", "?">>)
W_MODEQ    == Codes(<<"M", "O", "D", "E", "?">>)
W_PTT      == Codes(<<"P", "T", "T">>)
L_FA       == Codes(<<"F", "A", ";">>)
L_MD       == Codes(<<"M", "D", ";">>)
L_TX       == Codes(<<"T", "X", ";">>)
L_RX       == Codes(<<"R", "X", ";">>)
L_READFREQ ==
    Codes(<<"F", "E", " ", "F", "E", " ", "9", "4", " ", "E", "0", " ", "0", "3", " ", "F", "D">>)
L_READMODE ==
    Codes(<<"F", "E", " ", "F", "E", " ", "9", "4", " ", "E", "0", " ", "0", "4", " ", "F", "D">>)

\* The two-argument commands PINS and INVERT: the trimmed rest after the
\* word, split at its first blank.
TwoArgs(s, n) ==
    LET rest == Trim(Substring(s, n))
        sp   == IndexOfBlank(rest)
    IN  [ok |-> sp >= 0,
         rx |-> ToInt(SubSeq(rest, 1, IF sp >= 0 THEN sp ELSE 0)),
         tx |-> ToInt(Substring(rest, sp + 1))]

\* handleCommand(s).  HELP, INFO and the ERR / OK / HINWEIS lines of the
\* configuration commands only print to the console and change nothing.
handleCommand(S, s0) ==
    LET s   == Trim(s0)
        up  == ToUpperCase(s)
        pr  == parseProtoStrict(Substring(s, 5))
        sp  == IndexOfBlank(s)
        fmt == ToUpperCase(Trim(IF sp >= 0 THEN Substring(s, sp + 1) ELSE <<>>))
        b   == ToInt(Substring(s, 4))
        pin == TwoArgs(s, 4)
        inv == TwoArgs(s, 6)
        v   == ToInt(Substring(s, 3))
        ptt == ToInt(Trim(Substring(s, 3)))
    IN  IF Len(s) = 0 THEN S
        ELSE IF up \in {W_HELP, W_QMARK, W_HELPICOM, W_HELPELE, W_HELPELEC, W_INFO} THEN S
        ELSE IF up = W_RESTART THEN beginRs232(S)
        ELSE IF startsWithCmd(up, W_PROTO)
        THEN IF ~pr.ok THEN S ELSE [S EXCEPT !.g.proto = pr.proto]
        ELSE IF startsWithCmd(up, W_TXFMT) \/ startsWithCmd(up, W_FORMAT)
        THEN IF fmt = W_HEX THEN [S EXCEPT !.g.txFormat = "FMT_HEX"]
             ELSE IF fmt = W_ASCII THEN [S EXCEPT !.g.txFormat = "FMT_ASCII"]
             ELSE S
        ELSE IF startsWithCmd(up, W_BAUD)
        THEN IF b < 300 \/ b > 1000000 THEN S
             ELSE beginRs232([S EXCEPT !.g.rsBaud = b])
        ELSE IF startsWithCmd(up, W_PINS)
        THEN IF ~pin.ok THEN S
             ELSE beginRs232([S EXCEPT !.g.rxPin = pin.rx, !.g.txPin = pin.tx])
        ELSE IF startsWithCmd(up, W_INVERT)
        THEN IF ~inv.ok THEN S
             ELSE beginRs232([S EXCEPT !.g.rxInvert = (inv.rx # 0),
                                       !.g.txInvert = (inv.tx # 0)])
        ELSE IF startsWithCmd(up, W_ASCII)
        THEN [S EXCEPT !.g.showAscii = (ToInt(Substring(s, 5)) # 0)]
        ELSE IF startsWithCmd(up, W_TS)
        THEN [S EXCEPT !.g.showTsMs = (ToInt(Substring(s, 2)) # 0)]
        ELSE IF startsWithCmd(up, W_GAP)
        THEN IF v < 1 \/ v > 10000 THEN S ELSE [S EXCEPT !.g.rxGapFlushMs = v]
        ELSE IF startsWithCmd(up, W_CIV)
        THEN [S EXCEPT !.g.civDecode = (v # 0)]
        ELSE IF startsWithCmd(up, W_ECHO)
        THEN [S EXCEPT !.g.civEchoFilter = (b # 0)]
        ELSE IF up = W_FREQQ
        THEN IF S.g.proto = "ELE" THEN sendElecraftCat(S, L_FA)
             ELSE sendHexLine(S, L_READFREQ)
        ELSE IF up = W_MODEQ
        THEN IF S.g.proto = "ELE" THEN sendElecraftCat(S, L_MD)
             ELSE sendHexLine(S, L_READMODE)
        ELSE IF startsWithCmd(up, W_PTT)
        THEN IF S.g.proto = "ELE"
             THEN sendElecraftCat(S, IF ptt # 0 THEN L_TX ELSE L_RX)
             ELSE S
        ELSE IF S.g.txFormat = "FMT_HEX" THEN sendHexLine(S, s)
        ELSE sendAsciiRaw(S, s)

---------------------------------------------------------------------------
(* loop()                                                                  *)

NoProbe == [op |-> "none"]

\* The state when setup() has returned and loop() runs for the first time.
\* Time is counted from that moment.
EngineInit ==
    /\ now = 0
    /\ pc = "rx"
    /\ wire = <<>>
    /\ g = DefaultConfig
    /\ gRxBuf = <<>>
    /\ gLastRxMs = 0
    /\ gLastTx = <<>>
    /\ gLastTxIsCiv = FALSE
    /\ sent = <<>>
    /\ rxLog = <<>>
    /\ txLog = <<>>
    /\ ingested = <<>>
    /\ nArrived = 0
    /\ nCmds = 0
    /\ nTicks = 0

\* d milliseconds pass (the clock is advanced at most quota times).
Tick(d, quota) ==
    /\ nTicks < quota
    /\ now' = now + d
    /\ nTicks' = nTicks + 1
    /\ UNCHANGED <<pc, wire, g, gRxBuf, gLastRxMs, gLastTx, gLastTxIsCiv,
                   sent, rxLog, txLog, ingested, nArrived, nCmds, probe>>

\* A millisecond passes.  The clock runs to limit, and beyond it for as long
\* as bytes wait in the buffer for their gap to pass.
TickWhileWaiting(limit) ==
    /\ now < limit \/ (gRxLen > 0 /\ ~GapExceeded(Cur))
    /\ now' = now + 1
    /\ UNCHANGED <<pc, wire, g, gRxBuf, gLastRxMs, gLastTx, gLastTxIsCiv,
                   sent, rxLog, txLog, ingested, nArrived, nCmds, nTicks, probe>>

\* The line delivers the bytes of chunk to the UART (at most quota chunks).
Arrive(chunk, quota) ==
    /\ nArrived < quota
    /\ wire = <<>>
    /\ wire' = chunk
    /\ nArrived' = nArrived + 1
    /\ UNCHANGED <<now, pc, g, gRxBuf, gLastRxMs, gLastTx, gLastTxIsCiv,
                   sent, rxLog, txLog, ingested, nCmds, nTicks, probe>>

\* while (gRs->available() > 0) onRxByte((uint8_t)gRs->read());
\* The loop empties the FIFO within one reading of the clock; bytes that
\* come at different times are delivered as separate chunks.
RECURSIVE DrainRx(_)
DrainRx(S) ==
    IF S.wire = <<>> THEN S
    ELSE DrainRx(onRxByte([S EXCEPT !.wire = Tail(@)], Head(S.wire)))

\* A loop without the gap check, against which the polling flush is tested.
GapCheckNever(S) == S

\* if (gRxLen > 0 && (millis() - gLastRxMs) > g.rxGapFlushMs) flushRxLine();
GapCheck(S) == IF GapExceeded(S) THEN flushRxLine(S) ELSE S

\* The first half of loop(): the drain loop, then the gap check.
LoopRx ==
    /\ pc = "rx"
    /\ Commit(GapCheck(DrainRx(Cur)))
    /\ ingested' = ingested \o wire
    /\ pc' = "console"
    /\ UNCHANGED <<nArrived, nCmds, nTicks, probe>>

\* A console half in the order the gap check would have if it ran once more
\* behind the operator input, against which the order of a pass is tested.
ConsoleLineThenGapCheck(S, line) ==
    GapCheck(IF Len(Trim(line)) > 0 THEN handleCommand(S, Trim(line)) ELSE S)

\* line.trim(); if (line.length() > 0) handleCommand(line);
ConsoleLine(S, line) ==
    IF Len(Trim(line)) > 0 THEN handleCommand(S, Trim(line)) ELSE S

\* The console loop has read a whole line up to '\n' (at most quota lines).
LoopCmd(line, quota) ==
    /\ pc = "console"
    /\ nCmds < quota
    /\ Commit(ConsoleLine(Cur, line))
    /\ nCmds' = nCmds + 1
    /\ UNCHANGED <<pc, ingested, nArrived, nTicks, probe>>

\* Serial.available() is 0: loop() returns, and is called again a millisecond
\* later (a loop that polls once every millisecond; the clock stops at limit).
LoopEndTick(limit) ==
    /\ pc = "console"
    /\ now < limit
    /\ now' = now + 1
    /\ pc' = "rx"
    /\ UNCHANGED <<wire, g, gRxBuf, gLastRxMs, gLastTx, gLastTxIsCiv,
                   sent, rxLog, txLog, ingested, nArrived, nCmds, nTicks, probe>>

\* Serial.available() is 0: loop() returns and is called again.
LoopEnd ==
    /\ pc = "console"
    /\ pc' = "rx"
    /\ UNCHANGED <<now, wire, g, gRxBuf, gLastRxMs, gLastTx, gLastTxIsCiv,
                   sent, rxLog, txLog, ingested, nArrived, nCmds, nTicks, probe>>

---------------------------------------------------------------------------
(* The monitor on a line: specification Spec                               *)

\* Bounds of Spec: the times the clock is advanced, the chunks the line
\* delivers, the operator lines handled.
MaxTicks    == 1
MaxArrivals == 2
MaxCmds     == 1

\* FE FE 94 E0 03 FD, what FREQ? transmits and a one-wire bus echoes, and
\* FE FE E0 94 FA FD, the radio's ACK.
F_READFREQ == <<\hFE, \hFE, \h94, \hE0, \h03, \hFD>>
F_ACK      == <<\hFE, \hFE, \hE0, \h94, \hFA, \hFD>>

\* The clock is advanced by a millisecond, or by one more than the default
\* gap threshold.
TickSteps == {1, RX_GAP_FLUSH_MS + 1}

\* What the line delivers in one piece: single bytes (the Elecraft
\* terminator, a letter), a whole CI-V frame, and two frames that fill the
\* buffer.
RxChunks == {SEMI, Codes(<<"A">>), F_READFREQ, F_READFREQ \o F_ACK}

\* The operator lines.
CmdLines ==
    {W_FREQQ,
     Codes(<<"P", "R", "O", "T", "O", " ", "E", "L", "E">>)}

Init == EngineInit /\ probe = NoProbe

Next ==
    \/ \E d \in TickSteps : Tick(d, MaxTicks)
    \/ \E c \in RxChunks : Arrive(c, MaxArrivals)
    \/ LoopRx
    \/ \E line \in CmdLines : LoopCmd(line, MaxCmds)
    \/ LoopEnd

Spec == Init /\ [][Next]_vars

\* The bytes a full buffer is offered in C1: the Elecraft terminator, a
\* letter, the CI-V sentinels.
OfferedBytes == {SEMI[1], 65, \hFE, \hFD}

\* The buffers handed to flushRxLine so far, in order.
HandedOf(log) == [i \in 1..Len(log) |-> log[i].handed]
HandedSoFar == HandedOf(rxLog)

\* C1: the RX accumulation buffer never holds more than RX_BUF_MAX bytes, no
\* flush was ever handed more, and onRxByte called with a full buffer
\* flushes that buffer before it stores the byte: the report of the full
\* buffer is printed and the byte is alone in the buffer afterwards (or, an
\* Elecraft terminator, already flushed in its turn).
C1_BufferWithinCapacity ==
    /\ gRxLen <= RX_BUF_MAX
    /\ \A i \in 1..Len(rxLog) : Len(rxLog[i].handed) <= RX_BUF_MAX
    /\ gRxLen = RX_BUF_MAX =>
          \A b \in OfferedBytes :
             LET T == onRxByte(Cur, b)
             IN  /\ Len(T.rxLog) > Len(rxLog)
                 /\ T.rxLog[Len(rxLog) + 1].handed = gRxBuf
                 /\ Flatten(HandedOf(SubSeq(T.rxLog, Len(rxLog) + 2, Len(T.rxLog))))
                        \o T.gRxBuf = <<b>>

\* More than RX_BUF_MAX bytes came in with no time passing and no terminator
\* flush, and the first report is that of a full buffer: a forced flush.
C1_Witness ==
    /\ nTicks = 0
    /\ g.proto = "ICOM"
    /\ Len(ingested) > RX_BUF_MAX
    /\ Len(rxLog) = 1
    /\ rxLog[1].handed = SubSeq(ingested, 1, RX_BUF_MAX)
    /\ gRxBuf = SubSeq(ingested, RX_BUF_MAX + 1, Len(ingested))

\* C2: the buffers handed to flushRxLine so far, in order, followed by the
\* buffer, are the bytes handed to onRxByte, in order; and a report shows
\* what it was handed but for a leading part, which it withholds only with
\* the echo notice.
C2_NoByteDiscarded ==
    /\ Flatten(HandedSoFar) \o gRxBuf = ingested
    /\ \A i \in 1..Len(rxLog) :
          LET r == rxLog[i]
              k == Len(r.handed) - Len(r.shown)
          IN  /\ k >= 0
              /\ r.shown = Substring(r.handed, k)
              /\ k > 0 => r.notice

\* A report withheld an echo, and bytes that came later are in the buffer.
C2_Witness ==
    /\ \E i \in 1..Len(rxLog) : rxLog[i].notice /\ Len(rxLog[i].shown) < Len(rxLog[i].handed)
    /\ gRxLen > 0
    /\ Len(ingested) > RX_BUF_MAX

\* C13: with protocol ELE, onRxByte called with ';' flushes within the call,
\* whatever the gap timer says: on return the buffer is empty, the last
\* report is that of a buffer ending in this ';', and the reports of the call
\* hold the buffer and the ';' and nothing else.  With protocol ICOM a ';'
\* is stored like any byte: the call flushes only what the gap or a full
\* buffer make it flush, the earlier bytes, and the ';' stays in the buffer.
C13_TerminatorFlush ==
    LET T     == onRxByte(Cur, SEMI[1])
        fresh == SubSeq(T.rxLog, Len(rxLog) + 1, Len(T.rxLog))
    IN  /\ g.proto = "ELE" =>
              /\ T.gRxBuf = <<>>
              /\ Len(fresh) >= 1
              /\ EndsWith(fresh[Len(fresh)].handed, SEMI)
              /\ Flatten(HandedOf(fresh)) = gRxBuf \o SEMI
        /\ g.proto = "ICOM" =>
              IF GapExceeded(Cur) \/ gRxLen = RX_BUF_MAX
              THEN /\ T.gRxBuf = SEMI
                   /\ Len(fresh) = 1
                   /\ fresh[1].handed = gRxBuf
              ELSE /\ T.gRxBuf = gRxBuf \o SEMI
                   /\ fresh = <<>>

\* With protocol ELE selected, A and then ';' came in at the same
\* millisecond, and A; was reported at once.
C13_Witness ==
    /\ g.proto = "ELE"
    /\ nTicks = 0
    /\ ingested = Codes(<<"A", ";">>)
    /\ gRxBuf = <<>>
    /\ Len(rxLog) = 1
    /\ rxLog[1].handed = Codes(<<"A", ";">>)
    /\ rxLog[1].at = gLastRxMs

---------------------------------------------------------------------------
(* The monitor on a one-wire CI-V bus: specification SpecEcho              *)

\* The bus delivers at most MaxEchoArrivals chunks and the operator enters at
\* most MaxEchoCmds lines.
MaxEchoArrivals == 1
MaxEchoCmds     == 2

\* The bus gives back what was transmitted (F_READFREQ after FREQ?), alone,
\* with the answer of the radio behind it (F_ACK), or twice; the radio sends
\* on its own; noise comes in (a letter).
EchoChunks ==
    {F_READFREQ, F_READFREQ \o F_ACK, F_READFREQ \o F_READFREQ, F_ACK, Codes(<<"A">>)}

\* FREQ?, a raw hex byte that is no CI-V frame, and the two switches of the
\* echo filter.
EchoCmdLines ==
    {W_FREQQ,
     Codes(<<"4", "1">>),
     Codes(<<"E", "C", "H", "O", " ", "0">>),
     Codes(<<"C", "I", "V", " ", "0">>)}

\* Between two events on the bus the line is idle for longer than the gap.
EchoTickSteps == {RX_GAP_FLUSH_MS + 1}

NextEcho ==
    \/ \E d \in EchoTickSteps : Tick(d, MaxTicks)
    \/ \E c \in EchoChunks : Arrive(c, MaxEchoArrivals)
    \/ LoopRx
    \/ \E line \in EchoCmdLines : LoopCmd(line, MaxEchoCmds)
    \/ LoopEnd

SpecEcho == Init /\ [][NextEcho]_vars

\* C5: every flush, with B the last-TX record at that time: when the echo
\* filter and autodecode are on, B has CI-V frame shape and the buffer is
\* B ++ C with C not empty, the report shows C, decodes the frames of C and
\* carries the echo notice; in every other case (the buffer is B exactly, a
\* switch is off, B is absent or not frame-shaped, B is no prefix of the
\* buffer) it shows and decodes the whole buffer and carries no notice.
C5_EchoPrefixStrip ==
    [][\A i \in (Len(rxLog) + 1)..Len(rxLog') :
          LET r  == rxLog'[i]
              B  == gLastTx
              on == g.civEchoFilter /\ g.civDecode /\ Len(B) > 0 /\ isCivFrame(B)
              C  == Substring(r.handed, Len(B))
          IN  IF on /\ StartsWith(r.handed, B) /\ Len(r.handed) > Len(B)
              THEN /\ r.shown = C
                   /\ r.notice
                   /\ r.civ = DecodeRxFrames(C, TRUE, B, TRUE)
              ELSE /\ r.shown = r.handed
                   /\ ~r.notice
                   /\ r.civ = IF g.civDecode
                              THEN DecodeRxFrames(r.handed, g.civEchoFilter, B, isCivFrame(B))
                              ELSE <<>>]_vars

\* After FREQ? the bus echoed the frame with the ACK of the radio behind it,
\* and the ACK alone was reported and decoded, with the notice.
C5_Witness ==
    /\ gLastTx = F_READFREQ
    /\ gLastTxIsCiv
    /\ g.civEchoFilter /\ g.civDecode
    /\ Len(rxLog) = 1
    /\ rxLog[1].handed = F_READFREQ \o F_ACK
    /\ rxLog[1].shown = F_ACK
    /\ rxLog[1].notice
    /\ Len(rxLog[1].civ) = 1
    /\ rxLog[1].civ[1].what = "ACK (FA)"

\* The frames of p for which decodeAndPrintCivFrame prints a line.
PrintedFrames(p) == SelectSeq(ExtractFrames(p), LAMBDA f : Len(f) >= CIV_MIN_LEN)

\* C15 (amended): in every flush that decodes CI-V, each frame extracted
\* from the bytes shown has one decode line, and the line is marked (ECHO)
\* exactly when the echo filter is on and the frame equals the last-TX
\* record of that time byte for byte, whether or not the flush stripped an
\* echo from its start; with the echo filter off no line is marked.  The
\* decode lines of a TX report are never marked.
C15_EchoMarkedWhenFilterOn ==
    /\ [][\A i \in (Len(rxLog) + 1)..Len(rxLog') :
            LET r      == rxLog'[i]
                frames == PrintedFrames(r.shown)
            IN  (g.proto = "ICOM" /\ g.civDecode) =>
                  /\ Len(r.civ) = Len(frames)
                  /\ \A k \in 1..Len(frames) :
                        r.civ[k].echo <=> (g.civEchoFilter /\ frames[k] = gLastTx)]_vars
    /\ [](\A i \in 1..Len(txLog) : \A k \in 1..Len(txLog[i].civ) : ~txLog[i].civ[k].echo)

\* After FREQ? the bus sent the frame twice in one burst: the first was
\* stripped as the echo, and the second was decoded and marked (ECHO).
C15_Witness ==
    /\ gLastTx = F_READFREQ
    /\ Len(txLog) = 1 /\ Len(txLog[1].civ) = 1 /\ ~txLog[1].civ[1].echo
    /\ Len(rxLog) = 1
    /\ rxLog[1].handed = F_READFREQ \o F_READFREQ
    /\ rxLog[1].notice
    /\ rxLog[1].shown = F_READFREQ
    /\ Len(rxLog[1].civ) = 1
    /\ rxLog[1].civ[1].echo

\* C15 as stated: a decode line is marked (ECHO) exactly when its frame
\* equals the last-TX record.
C15_EchoMarkedWhenEqual ==
    [][\A i \in (Len(rxLog) + 1)..Len(rxLog') :
          LET r      == rxLog'[i]
              frames == PrintedFrames(r.shown)
          IN  (g.proto = "ICOM" /\ g.civDecode) =>
                /\ Len(r.civ) = Len(frames)
                /\ \A k \in 1..Len(frames) : r.civ[k].echo <=> (frames[k] = gLastTx)]_vars

---------------------------------------------------------------------------
(* A burst and then silence, polled every millisecond: specification       *)
(* SpecGap                                                                 *)

\* The clock of SpecGap stops here, and the line delivers at most
\* MaxGapArrivals bytes.
MaxGapNow      == 38
MaxGapArrivals == 3

\* The times at which a byte may come in, and the bytes.
ArrivalTimes == {0, 5, 10}
GapChunks == {Codes(<<"A">>), Codes(<<"B">>)}

\* A byte comes in at one of the arrival times, before the pass of that
\* millisecond reads the UART.
ArriveAtTimes ==
    /\ now \in ArrivalTimes
    /\ pc = "rx"
    /\ \E c \in GapChunks : Arrive(c, MaxGapArrivals)

NextGap ==
    \/ ArriveAtTimes
    \/ LoopRx
    \/ LoopEndTick(MaxGapNow)

SpecGap == Init /\ [][NextGap]_vars

\* C3 (amended): with the loop polling every millisecond, a buffer whose last
\* byte came at L is flushed, whole, by the poll at L + G + 1, the first at
\* which the elapsed time exceeds G, and by no earlier poll: a poll at
\* elapsed time G or less leaves it.
C3_GapFlushAfterThreshold ==
    /\ [][Len(rxLog') > Len(rxLog) =>
            /\ wire = <<>>
            /\ now - gLastRxMs = g.rxGapFlushMs + 1
            /\ Len(rxLog') = Len(rxLog) + 1
            /\ rxLog'[Len(rxLog')].handed = gRxBuf
            /\ rxLog'[Len(rxLog')].at = gLastRxMs + g.rxGapFlushMs + 1
            /\ gRxLen' = 0]_vars
    /\ []((pc = "console" /\ gRxLen > 0) => now - gLastRxMs <= g.rxGapFlushMs)
    /\ []((pc = "console" /\ ingested # <<>> /\ now - gLastRxMs <= g.rxGapFlushMs)
            => gRxLen > 0)

\* Bytes came in at 0, 5 and 10 ms and were flushed as one group at 36 ms.
C3_Witness ==
    /\ Len(ingested) = 3
    /\ gLastRxMs = 10
    /\ g.rxGapFlushMs = 25
    /\ Len(rxLog) = 1
    /\ rxLog[1].handed = ingested
    /\ rxLog[1].at = 36

\* C3 as stated: the buffer is flushed at L + G, so that after the poll at
\* an elapsed time of G or more the buffer is empty.
C3_FlushedAtGapTime ==
    (pc = "console" /\ gRxLen > 0) => now - gLastRxMs < g.rxGapFlushMs

---------------------------------------------------------------------------
(* The loop keeps running and the clock advances: specification SpecLive   *)

\* The clock of SpecLive runs at least to MaxLiveNow; the line delivers at
\* most MaxLiveArrivals chunks and the operator enters at most MaxLiveCmds
\* lines.
MaxLiveNow      == 2
MaxLiveArrivals == 2
MaxLiveCmds     == 1

\* A letter, and the Elecraft terminator.
LiveChunks == {Codes(<<"A">>), SEMI}

LiveCmdLines == {Codes(<<"P", "R", "O", "T", "O", " ", "E", "L", "E">>)}

NextLive ==
    \/ TickWhileWaiting(MaxLiveNow)
    \/ \E c \in LiveChunks : Arrive(c, MaxLiveArrivals)
    \/ LoopRx
    \/ \E line \in LiveCmdLines : LoopCmd(line, MaxLiveCmds)
    \/ LoopEnd

\* The steps of NextLive that fairness is asked of, each told by the variable
\* it alone changes that way: a LoopRx step, a LoopEnd step, a step of the
\* clock.
LoopRxStep == pc = "rx" /\ pc' = "console"
LoopEndStep == pc = "console" /\ pc' = "rx"
ClockStep ==
    /\ now < MaxLiveNow \/ (gRxLen > 0 /\ ~GapExceeded(Cur))
    /\ now' = now + 1

\* loop() is called again and again and each half of it completes; millis()
\* goes on counting.
SpecLive ==
    /\ Init
    /\ [][NextLive]_vars
    /\ WF_pc(LoopRxStep)
    /\ WF_pc(LoopEndStep)
    /\ WF_now(ClockStep)

\* C4: bytes in the RX buffer are eventually flushed, and a loop pass that
\* starts with bytes in the buffer whose last arrival lies more than the gap
\* threshold back flushes exactly these bytes in that pass, whatever the
\* protocol.
C4_PollingFlush ==
    /\ (gRxLen > 0) ~> (gRxLen = 0)
    /\ [][(pc = "rx" /\ pc' = "console" /\ GapExceeded(Cur)) =>
            /\ Len(rxLog') > Len(rxLog)
            /\ rxLog'[Len(rxLog) + 1].handed = gRxBuf
            /\ rxLog'[Len(rxLog) + 1].at = now]_vars

\* With the Elecraft protocol selected, a letter without terminator stayed in
\* the buffer and a later loop pass flushed it.
C4_Witness ==
    /\ g.proto = "ELE"
    /\ ingested = Codes(<<"A">>)
    /\ gRxLen = 0
    /\ Len(rxLog) = 1
    /\ rxLog[1].handed = ingested
    /\ rxLog[1].at > gLastRxMs + g.rxGapFlushMs

---------------------------------------------------------------------------
(* The frame loop of flushRxLine on buffers of one and of two well-formed  *)
(* frames: specification SpecExtract                                       *)

\* The longest run of bytes between FE FE and the closing FD.
MaxBody == 4

\* The bytes between the sentinels: the sentinels themselves and a command.
BodyBytes == {\hFE, \hFD, \h03}
Bodies == UNION {[1..n -> BodyBytes] : n \in (CIV_MIN_LEN - 3)..MaxBody}

\* The well-formed frames: FE FE, a body, FD, at least CIV_MIN_LEN long.
WellFormedFrames == {f \in {<<\hFE, \hFE>> \o b \o <<\hFD>> : b \in Bodies} : isCivFrame(f)}
ShortFrames == {f \in WellFormedFrames : Len(f) = CIV_MIN_LEN}

\* The buffers of SpecExtract, each as the frames it is put together from.
ExtractInputs == {<<f>> : f \in WellFormedFrames} \cup (ShortFrames \X ShortFrames)

InitExtract ==
    /\ EngineInit
    /\ \E parts \in ExtractInputs :
          probe = [op |-> "extract", parts |-> parts, p |-> Flatten(parts),
                   cursor |-> 0, frames |-> <<>>, done |-> FALSE]

\* One turn of while (cursor < len): findCivFrame from the cursor; a frame
\* found is taken and the cursor put behind it, else the loop ends.
ExtractStep ==
    /\ probe.op = "extract"
    /\ ~probe.done
    /\ LET f == ScanAt(probe.p, probe.cursor)
       IN  IF probe.cursor < Len(probe.p) /\ f.found
           THEN probe' = [probe EXCEPT !.frames = Append(@, Slice(probe.p, f.s, f.e)),
                                        !.cursor = f.e + 1]
           ELSE probe' = [probe EXCEPT !.done = TRUE]
    /\ UNCHANGED engineVars

SpecExtract == InitExtract /\ [][ExtractStep]_vars

\* FD is the last byte of f and no other.
EndsAtFirstFD(f) == \A k \in 1..(Len(f) - 1) : f[k] # \hFD

\* The decode lines of the frames fs, each decoded on its own.
DecodedEach(fs) == Flatten([k \in 1..Len(fs) |-> decodeAndPrintCivFrame(fs[k], "RX", FALSE)])

\* C6 (amended): for a well-formed frame F with no FD before its last byte,
\* the frame loop on a buffer that is exactly F yields one frame, F.
C6_SingleFrameExtracted ==
    (probe.op = "extract" /\ probe.done /\ Len(probe.parts) = 1
       /\ isCivFrame(probe.parts[1]) /\ EndsAtFirstFD(probe.parts[1]))
    => /\ probe.frames = probe.parts
       /\ ExtractFrames(probe.p) = probe.parts

\* The loop ended on FE FE FE FE 03 FE FD with that frame and no other.
C6_Witness ==
    /\ probe.op = "extract" /\ probe.done
    /\ probe.parts = << <<\hFE, \hFE, \hFE, \hFE, \h03, \hFE, \hFD>> >>
    /\ probe.frames = probe.parts

\* C6 as stated: any well-formed frame, whatever the bytes between the
\* sentinels, is extracted as itself.
C6_AnyFrameExtracted ==
    (probe.op = "extract" /\ probe.done /\ Len(probe.parts) = 1
       /\ isCivFrame(probe.parts[1]))
    => probe.frames = probe.parts

\* C7 (amended): for two well-formed frames F1 and F2, neither with an FD
\* before its last byte, the frame loop on the buffer F1 ++ F2 yields F1 and
\* then F2, and the flush decodes each of them on its own.
C7_TwoFramesExtracted ==
    (probe.op = "extract" /\ probe.done /\ Len(probe.parts) = 2
       /\ \A k \in 1..2 : isCivFrame(probe.parts[k]) /\ EndsAtFirstFD(probe.parts[k]))
    => /\ probe.frames = probe.parts
       /\ ExtractFrames(probe.p) = probe.parts
       /\ DecodeRxFrames(probe.p, FALSE, <<>>, FALSE) = DecodedEach(probe.parts)

\* The loop ended on FE FE 03 03 FE FD FE FE FE 03 03 FD with the two frames.
C7_Witness ==
    /\ probe.op = "extract" /\ probe.done
    /\ probe.parts = << <<\hFE, \hFE, \h03, \h03, \hFE, \hFD>>,
                        <<\hFE, \hFE, \hFE, \h03, \h03, \hFD>> >>
    /\ probe.frames = probe.parts

\* C7 as stated: any two well-formed frames are extracted as themselves.
C7_AnyTwoFramesExtracted ==
    (probe.op = "extract" /\ probe.done /\ Len(probe.parts) = 2
       /\ \A k \in 1..2 : isCivFrame(probe.parts[k]))
    => probe.frames = probe.parts

---------------------------------------------------------------------------
(* The frequency decode on BCD payloads: specification SpecBcd             *)

\* A two-digit number as one BCD byte, and a frequency of mhz MHz and rem Hz
\* (mhz * 1000000 + rem hertz, ten digits) as the five bytes of a CI-V
\* frequency: least significant digit pair first, as in
\* "14.330.000 MHz -> BCD: 00 00 33 14 00".
intToBcd2(v) == (v \div 10) * 16 + (v % 10)
encodeCivFreqHz(mhz, rem) ==
    <<intToBcd2(rem % 100), intToBcd2((rem \div 100) % 100), intToBcd2(rem \div 10000),
      intToBcd2(mhz % 100), intToBcd2(mhz \div 100)>>

\* The frequencies encoded: 0, the example of the quick reference, the
\* largest 32-bit value 4294.967295 MHz and its neighbours, the largest
\* ten-digit value.
SampleMHz == {0, 1, 14, 4294, 4295, 9999}
SampleRem == {0, 330000, 967295, 967296, 999999}

\* The bytes of the raw payloads: BCD bytes, bytes with a low or a high
\* nibble above 9, the end sentinel.
RawBytes == {\h00, \h14, \h0A, \hA0, \hFD}

\* The commands whose frames carry a frequency: SET FREQ and READ FREQ.
FreqCmds == {\h00, \h03}

BcdInputs ==
    {[h |-> <<m, r>>, b5 |-> encodeCivFreqHz(m, r)] : m \in SampleMHz, r \in SampleRem}
    \cup {[h |-> <<>>, b5 |-> b] : b \in [1..5 -> RawBytes]}

\* The frame FE FE E0 94 <cmd> <b5> FD.
FreqFrame(cmd, b5) == <<\hFE, \hFE, \hE0, \h94, cmd>> \o b5 \o <<\hFD>>

InitBcd ==
    /\ EngineInit
    /\ \E in \in BcdInputs, cmd \in FreqCmds :
          probe = [op |-> "bcd", cmd |-> cmd, h |-> in.h, b5 |-> in.b5, stage |-> 0,
                   hz |-> NoHz, line |-> <<>>, lines |-> <<>>]

\* decodeCivFreqHz(b5, hz)
BcdDecode ==
    /\ probe.op = "bcd"
    /\ probe.stage = 0
    /\ probe' = [probe EXCEPT !.stage = 1, !.hz = decodeCivFreqHz(probe.b5)]
    /\ UNCHANGED engineVars

\* decodeAndPrintCivFrame on the frame of b5, and the frame loop of a flush
\* on a buffer of that frame followed by an ACK.
FrameDecode ==
    /\ probe.op = "bcd"
    /\ probe.stage = 1
    /\ probe' = [probe EXCEPT
          !.stage = 2,
          !.line  = decodeAndPrintCivFrame(FreqFrame(probe.cmd, probe.b5), "RX", FALSE),
          !.lines = DecodeRxFrames(FreqFrame(probe.cmd, probe.b5) \o F_ACK, FALSE, <<>>, FALSE)]
    /\ UNCHANGED engineVars

NextBcd == BcdDecode \/ FrameDecode

SpecBcd == InitBcd /\ [][NextBcd]_vars

\* mhz MHz and rem Hz are at most 4294967295 Hz.
FitsU32(h) == h[1] < U32_MAX_MHZ \/ (h[1] = U32_MAX_MHZ /\ h[2] <= U32_MAX_REM)

\* C8 (amended): for every hertz value H from 0 to 4,294,967,295, decoding
\* the five BCD bytes of H succeeds and returns H; for every larger H up to
\* 9,999,999,999 it fails.
C8_BcdRoundTrip ==
    (probe.op = "bcd" /\ probe.stage >= 1 /\ probe.h # <<>>)
    => IF FitsU32(probe.h)
       THEN probe.hz = [ok |-> TRUE, mhz |-> probe.h[1], rem |-> probe.h[2]]
       ELSE ~probe.hz.ok

\* 14.330.000 MHz was encoded as 00 00 33 14 00 and decoded to itself.
C8_Witness ==
    /\ probe.op = "bcd" /\ probe.stage >= 1
    /\ probe.h = <<14, 330000>>
    /\ probe.b5 = <<\h00, \h00, \h33, \h14, \h00>>
    /\ probe.hz = [ok |-> TRUE, mhz |-> 14, rem |-> 330000]

\* C8 as stated: every H from 0 to 9,999,999,999 is decoded to itself.
C8_RoundTripTenDigits ==
    (probe.op = "bcd" /\ probe.stage >= 1 /\ probe.h # <<>>)
    => probe.hz = [ok |-> TRUE, mhz |-> probe.h[1], rem |-> probe.h[2]]

\* A nibble of one of the five bytes is above 9.
BadNibble(b5) == \E i \in 1..5 : b5[i] % 16 > 9 \/ b5[i] \div 16 > 9

\* C9: when a nibble of the five payload bytes is above 9, decodeCivFreqHz
\* fails and gives no value; the line of the frame still has to, from and
\* cmd and is marked as a decode error, with no value; and the frame loop
\* goes on to the frame that follows (the payload holding no end sentinel,
\* the frame is the extracted one).
C9_DecodeErrorIsLocal ==
    (probe.op = "bcd" /\ BadNibble(probe.b5))
    => /\ probe.stage >= 1 => probe.hz = NoHz
       /\ probe.stage = 2 =>
            /\ Len(probe.line) = 1
            /\ probe.line[1].to = \hE0 /\ probe.line[1].from = \h94
            /\ probe.line[1].cmd = probe.cmd
            /\ probe.line[1].err
            /\ probe.line[1].mhz = 0 /\ probe.line[1].rem = 0
            /\ (\A i \in 1..5 : probe.b5[i] # \hFD) =>
                  /\ Len(probe.lines) = 2
                  /\ probe.lines[1] = probe.line[1]
                  /\ probe.lines[2] = decodeAndPrintCivFrame(F_ACK, "RX", FALSE)[1]
                  /\ probe.lines[2].what = "ACK (FA)"

\* The READ FREQ answer with payload 00 0A 00 14 00 was reported with its
\* header and the decode error, and the ACK behind it was decoded.
C9_Witness ==
    /\ probe.op = "bcd" /\ probe.stage = 2
    /\ probe.cmd = \h03
    /\ probe.b5 = <<\h00, \h0A, \h00, \h14, \h00>>
    /\ ~probe.hz.ok
    /\ Len(probe.lines) = 2
    /\ probe.lines[1].err /\ probe.lines[1].what = "FREQ"
    /\ probe.lines[2].what = "ACK (FA)"

---------------------------------------------------------------------------
(* The hex TX validation on operator lines: specification SpecHex          *)

\* The longest of the lines made of all combinations of HexAlphabet.
MaxHexLen == 4

\* Two hex digits, a letter that is none, a blank and a form feed.
HexAlphabet == {52, 97, 71, 32, 12}

\* n times the digit 4.
Fours(n) == [i \in 1..n |-> 52]

\* The lines: all short combinations; the READ FREQ frame as it is typed;
\* ABC; and lines of one byte more than TX_MAX_BYTES: of digits only, with a
\* digit too many, with a letter behind.
HexLines ==
    UNION {[1..n -> HexAlphabet] : n \in 0..MaxHexLen}
    \cup {L_READFREQ, Codes(<<"A", "B", "C">>),
          Fours(2 * TX_MAX_BYTES + 2), Fours(2 * TX_MAX_BYTES + 3),
          Fours(2 * TX_MAX_BYTES + 2) \o <<71>>}

InitHex ==
    /\ EngineInit
    /\ \E in \in HexLines :
          probe = [op |-> "hex", in |-> in, stage |-> 0, r |-> HexFail("")]

\* parseHexString(s, bytes, sizeof(bytes), len, err)
HexParse ==
    /\ probe.op = "hex"
    /\ probe.stage = 0
    /\ probe' = [probe EXCEPT !.stage = 1, !.r = parseHexString(probe.in, TX_MAX_BYTES)]
    /\ UNCHANGED engineVars

\* sendHexLine(s)
HexSend ==
    /\ probe.op = "hex"
    /\ probe.stage = 1
    /\ Commit(sendHexLine(Cur, probe.in))
    /\ probe' = [probe EXCEPT !.stage = 2]
    /\ UNCHANGED <<pc, ingested, nArrived, nCmds, nTicks>>

NextHex == HexParse \/ HexSend

SpecHex == InitHex /\ [][NextHex]_vars

\* What the validation has to answer for a line of which the characters in
\* the set ignored are ignored: the checks in the order empty, character, count,
\* budget, and else one byte per pair of digits, in the order of the line.
HexExpected(line, ignored) ==
    LET digits == SelectSeq(Trim(line), LAMBDA c : c \notin ignored)
        n      == Len(digits) \div 2
    IN  IF Trim(line) = <<>> THEN HexFail(ERR_EMPTY)
        ELSE IF \E i \in 1..Len(digits) : ~isHexChar(digits[i]) THEN HexFail(ERR_CHAR)
        ELSE IF Len(digits) % 2 = 1 THEN HexFail(ERR_ODD)
        ELSE IF n > TX_MAX_BYTES THEN HexFail(ERR_MANY)
        ELSE [ok |-> TRUE,
              bytes |-> [k \in 1..n |-> 16 * hexNibble(digits[2 * k - 1]) + hexNibble(digits[2 * k])],
              err |-> ""]

\* Blank, tab, CR and LF; and all the characters isspace() knows.
BlankTabCrLf == {32, 9, 13, 10}
Whitespace == {c \in 0..255 : IsSpace(c)}

---------------------------------------------------------------------------
(* The operator transmits, in both TX formats: specification SpecTx        *)

\* The operator enters at most MaxTxCmds lines, the line delivers at most
\* MaxTxArrivals chunks and the clock is advanced at most MaxTxTicks times.
MaxTxCmds     == 2
MaxTxArrivals == 1
MaxTxTicks    == 1

L_TXFMT_ASCII == Codes(<<"T", "X", "F", "M", "T", " ", "A", "S", "C", "I", "I">>)
L_PROTO_ELE   == Codes(<<"P", "R", "O", "T", "O", " ", "E", "L", "E">>)
L_FA_BARE     == Codes(<<"F", "A">>)
L_4G          == Codes(<<"4", "G">>)
L_PTT1        == Codes(<<"P", "T", "T", " ", "1">>)
L_PTT0        == Codes(<<"P", "T", "T", " ", "0">>)

\* The lines the operator enters.  With TX format HEX, "FA" is the byte FA,
\* the READ FREQ line is a frame of six bytes and "4G" is rejected; with TX
\* format ASCII every one of them is text, the READ FREQ line a text of
\* seventeen characters.
TxCmdLines == {L_TXFMT_ASCII, L_PROTO_ELE, L_FA_BARE, L_READFREQ, L_4G}

\* The line delivers the echo of READ FREQ with an ACK behind.
TxChunks == {F_READFREQ \o F_ACK}

NextTx ==
    \/ Tick(RX_GAP_FLUSH_MS + 1, MaxTxTicks)
    \/ \E c \in TxChunks : Arrive(c, MaxTxArrivals)
    \/ LoopRx
    \/ \E line \in TxCmdLines : LoopCmd(line, MaxTxCmds)
    \/ LoopEnd

SpecTx == Init /\ [][NextTx]_vars

\* The lines sendHexLine is offered in C11: a line of one byte, an empty
\* line, a character that is no digit, an odd number of digits, a form feed
\* between digits, a byte more than TX_MAX_BYTES.
HexOffered ==
    {L_FA_BARE, <<>>, L_4G, Codes(<<"A", "B", "C">>), <<52, 12, 52>>,
     Fours(2 * TX_MAX_BYTES + 2)}

\* C11: a hex line that fails validation is not transmitted and changes
\* neither the configuration, nor the RX buffer and its clock, nor the
\* last-TX record (bytes, length, shape flag), nor the bytes waiting in the
\* UART: sendHexLine only prints the ERR line.  This holds of sendHexLine in
\* every reachable state, and of every step that prints an ERR line.
C11_RejectedSendChangesNothing ==
    /\ [](\A line \in HexOffered :
            LET r == parseHexString(line, TX_MAX_BYTES)
                T == sendHexLine(Cur, line)
            IN  ~r.ok =>
                  /\ T.sent = sent
                  /\ T.wire = wire
                  /\ T.g = g
                  /\ T.gRxBuf = gRxBuf
                  /\ T.gLastRxMs = gLastRxMs
                  /\ T.gLastTx = gLastTx
                  /\ T.gLastTxIsCiv = gLastTxIsCiv
                  /\ T.rxLog = rxLog
                  /\ T.now = now
                  /\ Len(T.txLog) = Len(txLog) + 1
                  /\ SubSeq(T.txLog, 1, Len(txLog)) = txLog
                  /\ T.txLog[Len(T.txLog)].kind = "ERR"
                  /\ T.txLog[Len(T.txLog)].err = r.err)
    /\ [][(Len(txLog') > Len(txLog) /\ txLog'[Len(txLog')].kind = "ERR")
            => UNCHANGED <<sent, wire, g, gRxBuf, gLastRxMs, gLastTx, gLastTxIsCiv, rxLog>>]_vars

\* READ FREQ was transmitted, a byte is waiting in the RX buffer, and then
\* "4G" was rejected: the record is still READ FREQ, nothing else was sent.
C11_Witness ==
    /\ Len(txLog) = 2
    /\ txLog[1].kind = "TX"
    /\ txLog[2].kind = "ERR" /\ txLog[2].err = ERR_CHAR
    /\ sent = <<F_READFREQ>>
    /\ gLastTx = F_READFREQ /\ gLastTxIsCiv
    /\ gRxLen > 0

\* C12 as stated: the last-TX record is the most recent transmission in
\* full (empty before the first), and its shape flag says whether those
\* bytes have CI-V frame shape.  The bytes handed to the transport change
\* only by a transmission, so this also says that no other step touches the
\* record.
C12_RecordIsLastTransmission ==
    IF sent = <<>>
    THEN gLastTx = <<>> /\ ~gLastTxIsCiv
    ELSE /\ gLastTx = sent[Len(sent)]
         /\ gLastTxIsCiv = isCivFrame(sent[Len(sent)])

\* The raw lines offered with TX format ASCII in C17: with and without the
\* terminator, in lower case, with blanks around, longer than TX_MAX_BYTES.
AsciiOffered ==
    {L_FA_BARE, Codes(<<"f", "a", ";">>), Codes(<<" ", "F", "A", " ">>), L_READFREQ}

\* The comfort commands and the text each sends with protocol ELE.
ComfortSends ==
    {<<W_FREQQ, L_FA>>, <<W_MODEQ, L_MD>>, <<L_PTT1, L_TX>>, <<L_PTT0, L_RX>>}

\* The number of terminators in s.
Terminators(s) == Len(SelectSeq(s, LAMBDA c : c = SEMI[1]))

\* C17: with TX format ASCII a raw line is handed to the transport as its
\* trimmed text, byte for byte, with nothing appended; the TX report renders
\* that text with a ';' behind it only when it does not end in one.  With
\* protocol ELE the comfort commands FREQ?, MODE? and PTT send FA; MD; TX;
\* RX;, each ending in exactly one ';'.
C17_AsciiSentAsTyped ==
    /\ g.txFormat = "FMT_ASCII" =>
          \A line \in AsciiOffered :
             LET T == handleCommand(Cur, line)
                 t == Trim(line)
                 e == T.txLog[Len(T.txLog)]
             IN  /\ T.sent = Append(sent, t)
                 /\ Len(T.txLog) = Len(txLog) + 1
                 /\ e.kind = "TX"
                 /\ Len(e.ele) = 1
                 /\ e.ele[1].text = (IF EndsWith(t, SEMI) THEN t ELSE t \o SEMI)
    /\ g.proto = "ELE" =>
          \A c \in ComfortSends :
             LET T == handleCommand(Cur, c[1])
             IN  /\ T.sent = Append(sent, c[2])
                 /\ EndsWith(c[2], SEMI)
                 /\ Terminators(c[2]) = 1

\* With protocol ELE and TX format ASCII, FA was sent as the two bytes F A
\* and rendered as FA;.
C17_Witness ==
    /\ g.txFormat = "FMT_ASCII"
    /\ sent = <<L_FA_BARE>>
    /\ Len(txLog) = 1
    /\ txLog[1].ele[1].text = L_FA
    /\ txLog[1].ele[1].what = "VFO A FREQ (GET/SET)"

\* C24: while the Elecraft protocol is selected, no flush strips a prefix
\* from the flushed bytes or prints the echo notice, whatever the last-TX
\* record holds: every report added while g.proto is ELE shows the whole
\* buffer it was handed.
C24_NoStripWhileAscii ==
    [][(g.proto = "ELE" /\ g'.proto = "ELE") =>
          \A i \in (Len(rxLog) + 1)..Len(rxLog') :
             /\ ~rxLog'[i].notice
             /\ rxLog'[i].shown = rxLog'[i].handed]_vars

---------------------------------------------------------------------------
(* An Elecraft radio on the line: specification SpecEle                    *)

\* The radio sends at most MaxEleArrivals chunks, the operator enters at most
\* MaxEleCmds lines and the clock is advanced at most MaxEleTicks times.
MaxEleArrivals == 2
MaxEleCmds     == 2
MaxEleTicks    == 1

\* What the radio sends in one piece: TX; and RX;, a message cut before its
\* terminator and the terminator alone, the echo of READ FREQ with TX;
\* behind it, and a message longer than the RX buffer.
EleChunks ==
    {L_TX, L_RX, Codes(<<"T", "X">>), SEMI, F_READFREQ \o L_TX,
     Codes(<<"F", "A", "0", "0", "0", "1", "4", "0", "7", "4", "0", "0", "0", ";">>)}

\* The operator selects the protocol, and sends READ FREQ as raw hex.
EleCmdLines == {L_PROTO_ELE, L_READFREQ}

\* The radio is heard once protocol ELE is selected.
ArriveEle ==
    /\ g.proto = "ELE"
    /\ \E c \in EleChunks : Arrive(c, MaxEleArrivals)

NextEle ==
    \/ Tick(RX_GAP_FLUSH_MS + 1, MaxEleTicks)
    \/ ArriveEle
    \/ LoopRx
    \/ \E line \in EleCmdLines : LoopCmd(line, MaxEleCmds)
    \/ LoopEnd

SpecEle == Init /\ [][NextEle]_vars

\* The decode summaries printed by the flushes so far, in order.
EleSummaries == Flatten([i \in 1..Len(rxLog) |-> rxLog[i].ele])

\* C14: with protocol ELE, the flushes of a stream print one decode summary
\* for every terminator that came in, in the order of arrival: the k-th
\* summary renders the k-th message of the stream, the whole of it when
\* every flushed buffer was a whole message, and otherwise the part of it
\* that was flushed with its terminator; and every message handed to
\* decodeAndPrintElecraft by a flush holds one terminator, its last
\* character.
C14_OneSummaryPerMessage ==
    LET msgs == EleMessages(ingested)
    IN  /\ Len(msgs) = Terminators(ingested)
        /\ Len(EleSummaries) = Len(msgs)
        /\ \A k \in 1..Len(EleSummaries) :
              /\ EleSummaries[k].dir = "RX"
              /\ EndsWith(msgs[k], EleSummaries[k].text)
              /\ EndsWith(EleSummaries[k].text, SEMI)
        /\ (\A i \in 1..Len(rxLog) : EndsWith(rxLog[i].handed, SEMI) /\ ~rxLog[i].notice)
              => \A k \in 1..Len(EleSummaries) : EleSummaries[k].text = msgs[k]
        /\ \A i \in 1..Len(rxLog) :
              \A k \in 1..Len(EleMessages(rxLog[i].shown)) :
                 LET m == EleMessages(rxLog[i].shown)[k]
                 IN  Terminators(m) = 1 /\ EndsWith(m, SEMI)

\* TX; and then RX; came in and were summarised as PTT ON and then PTT OFF.
C14_Witness ==
    /\ ingested = L_TX \o L_RX
    /\ Len(EleSummaries) = 2
    /\ EleSummaries[1].text = L_TX /\ EleSummaries[1].what = "PTT: ON (TX)"
    /\ EleSummaries[2].text = L_RX /\ EleSummaries[2].what = "PTT: OFF (RX)"

---------------------------------------------------------------------------
(* The order of one pass of loop(): specification SpecPass                 *)

\* The clock is advanced at most MaxPassTicks times, between two passes; the
\* line delivers at most MaxPassArrivals bytes and the operator enters at
\* most MaxPassCmds lines.
MaxPassTicks    == 2
MaxPassArrivals == 2
MaxPassCmds     == 1

\* The time between two passes: less than the default gap, and more.
PassTickSteps == {2, RX_GAP_FLUSH_MS + 1}

PassChunks == {Codes(<<"A">>), Codes(<<"B">>)}

\* GAP 1 lowers the gap threshold to a millisecond; RESTART takes 50 ms.
PassCmdLines == {Codes(<<"G", "A", "P", " ", "1">>), W_RESTART}

\* Time passes between the end of a pass and the start of the next.
TickBetweenPasses ==
    /\ pc = "rx"
    /\ \E d \in PassTickSteps : Tick(d, MaxPassTicks)

NextPass ==
    \/ TickBetweenPasses
    \/ \E c \in PassChunks : Arrive(c, MaxPassArrivals)
    \/ LoopRx
    \/ \E line \in PassCmdLines : LoopCmd(line, MaxPassCmds)
    \/ LoopEnd

SpecPass == Init /\ [][NextPass]_vars

\* C16 (amended): a pass of loop() first drains every byte the UART holds
\* through onRxByte and then checks the gap timer, so that no expired buffer
\* is left; only then it handles operator input, which neither drains nor
\* flushes; and it ends without checking the gap timer again.
C16_DrainGapCheckThenConsole ==
    /\ [][(pc = "rx" /\ pc' = "console") =>
            /\ wire' = <<>>
            /\ ingested' = ingested \o wire
            /\ ~(gRxLen' > 0 /\ now' - gLastRxMs' > g'.rxGapFlushMs)]_vars
    /\ [][nCmds' # nCmds =>
            /\ pc = "console" /\ pc' = "console"
            /\ UNCHANGED <<rxLog, gRxBuf, gLastRxMs, ingested>>]_vars
    /\ [][(pc = "console" /\ pc' = "rx") =>
            UNCHANGED <<now, wire, g, gRxBuf, gLastRxMs, rxLog, txLog, ingested>>]_vars

\* A byte came in, two milliseconds later a pass found the gap not expired
\* and then handled GAP 1: the buffer is expired, and the pass has not
\* flushed it.
C16_Witness ==
    /\ pc = "console"
    /\ nCmds = 1
    /\ g.rxGapFlushMs = 1
    /\ gRxLen > 0
    /\ now - gLastRxMs = 2
    /\ rxLog = <<>>

\* C16 as stated: the gap timer is checked behind the drain and behind the
\* operator input, so that the console half of a pass never holds an
\* expired buffer.
C16_GapCheckedAfterConsole ==
    pc = "console" => ~GapExceeded(Cur)

---------------------------------------------------------------------------
(* The Elecraft decoder on single messages: specification SpecCat          *)

\* The mnemonics: the four the decoder knows, in both cases, and others.
CatMnemonics ==
    {Codes(<<"F", "A">>), Codes(<<"F", "B">>), Codes(<<"f", "a">>), Codes(<<"F", "b">>),
     Codes(<<"M", "D">>), Codes(<<"m", "d">>), Codes(<<"T", "X">>), Codes(<<"R", "X">>),
     Codes(<<"t", "x">>), Codes(<<"I", "F">>), Codes(<<"F">>), <<>>}

\* The remainders: none; the mode codes 0 to 10; digits of the lengths around
\* five; the frequency of the example; digits with a letter, a sign, a
\* blank, a point among them.
CatRemainders ==
    {<<>>}
    \cup {<<48 + d>> : d \in 0..9}
    \cup {Codes(<<"1", "0">>), Codes(<<"0", "3">>),
          Codes(<<"1", "2", "3", "4">>), Codes(<<"1", "2", "3", "4", "5">>),
          Codes(<<"0", "0", "0", "0", "0">>),
          Codes(<<"1", "4", "0", "7", "4", "0", "0", "0">>),
          Codes(<<"0", "0", "0", "1", "4", "0", "7", "4", "0", "0", "0">>),
          Codes(<<"1", "4", "0", "7", "A">>), Codes(<<"-", "1", "2", "3", "4", "5">>),
          Codes(<<"1", "2", " ", "3", "4", "5">>), Codes(<<"1", "4", ".", "0", "7", "4">>),
          Codes(<<"3", "X">>), Codes(<<"X">>)}

\* A message is a mnemonic, a remainder and the terminator; the text of a
\* transmission may lack the terminator.
CatInputs ==
    {[msg |-> mn \o r \o t, dir |-> d] :
        mn \in CatMnemonics, r \in CatRemainders, t \in {SEMI}, d \in {"RX", "TX"}}
    \cup {[msg |-> mn \o r, dir |-> "TX"] : mn \in CatMnemonics, r \in CatRemainders}

InitCat ==
    /\ EngineInit
    /\ \E in \in CatInputs :
          probe = [op |-> "cat", msg |-> in.msg, dir |-> in.dir, stage |-> 0,
                   line |-> EleLine("", <<>>, "", 0, 0, "")]

\* decodeAndPrintElecraft(msg, dirTag)
CatDecode ==
    /\ probe.op = "cat"
    /\ probe.stage = 0
    /\ probe' = [probe EXCEPT !.stage = 1,
                              !.line = decodeAndPrintElecraft(probe.msg, probe.dir)]
    /\ UNCHANGED engineVars

\* The same message as the radio sends it: through onRxByte, byte by byte,
\* with protocol ELE selected.
CatIngest ==
    /\ probe.op = "cat"
    /\ probe.stage = 1
    /\ probe.dir = "RX"
    /\ Commit(DrainRx([Cur EXCEPT !.g.proto = "ELE", !.wire = probe.msg]))
    /\ probe' = [probe EXCEPT !.stage = 2]
    /\ UNCHANGED <<pc, ingested, nArrived, nCmds, nTicks>>

NextCat == CatDecode \/ CatIngest

SpecCat == InitCat /\ [][NextCat]_vars

\* The mode table of the claim.
CatModeTable(n) ==
    CASE n = 1 -> "LSB" [] n = 2 -> "USB" [] n = 3 -> "CW" [] n = 4 -> "FM"
      [] n = 5 -> "AM" [] n = 6 -> "DATA" [] n = 7 -> "CW-REV" [] n = 9 -> "DATA-REV"
      [] OTHER -> "UNKNOWN"

CatModeNames ==
    {"LSB", "USB", "CW", "FM", "AM", "DATA", "CW-REV", "DATA-REV", "UNKNOWN"}

AllDigits(s) == \A i \in 1..Len(s) : IsDigit(s[i])

\* C18: the line decodeAndPrintElecraft prints for a message, by its first
\* two characters without regard to case, the first rule that matches: FA
\* or FB with a remainder (the terminator stripped) of five or more
\* characters, all decimal digits, is that VFO with the digits read as
\* hertz, and with any other remainder the form GET/SET without a value; MD
\* is the mode of the table for the digits of the remainder, UNKNOWN for a
\* number the table lacks and for no argument, and never anything but a
\* mode name; TX; is PTT ON and RX; is PTT OFF; every other message is
\* rendered with no interpretation.  A message the radio sends is rendered
\* the same by the flush of its terminator.
C18_CatDispatch ==
    (probe.op = "cat" /\ probe.stage >= 1) =>
       LET m   == IF EndsWith(probe.msg, SEMI) THEN probe.msg ELSE probe.msg \o SEMI
           up  == ToUpperCase(m)
           mn  == SubSeq(up, 1, 2)
           r   == SubSeq(up, 3, Len(up) - 1)
           v   == DigitsValue(r)
           L   == probe.line
           isF == Len(up) >= 2 /\ mn \in {Codes(<<"F", "A">>), Codes(<<"F", "B">>)}
           isM == Len(up) >= 2 /\ mn = Codes(<<"M", "D">>)
       IN  /\ L.dir = probe.dir
           /\ L.text = m
           /\ IF isF
              THEN IF r # <<>> /\ AllDigits(r) /\ Len(r) >= 5
                   THEN /\ L.what = (IF mn[2] = 65 THEN "VFO A FREQ" ELSE "VFO B FREQ")
                        /\ L.mhz = v \div 1000000
                        /\ L.rem = v % 1000000
                   ELSE /\ L.what = (IF mn[2] = 65 THEN "VFO A FREQ (GET/SET)"
                                                  ELSE "VFO B FREQ (GET/SET)")
                        /\ L.mhz = 0 /\ L.rem = 0
              ELSE IF isM
              THEN /\ L.what = "MODE"
                   /\ L.mode = (IF r = <<>> THEN "UNKNOWN"
                                ELSE IF AllDigits(r) THEN CatModeTable(v)
                                ELSE L.mode)
                   /\ L.mode \in CatModeNames
              ELSE IF up = L_TX THEN L.what = "PTT: ON (TX)"
              ELSE IF up = L_RX THEN L.what = "PTT: OFF (RX)"
              ELSE L.what = "" /\ L.mode = "" /\ L.mhz = 0 /\ L.rem = 0
           /\ (probe.stage = 2 /\ Len(probe.msg) <= RX_BUF_MAX) =>
                 /\ Len(rxLog) = 1
                 /\ rxLog[1].ele = <<L>>

\* FA00014074000; was decoded as VFO A, 14.074000 MHz.
C18_Witness ==
    /\ probe.op = "cat" /\ probe.stage = 1
    /\ probe.msg = Codes(<<"F", "A", "0", "0", "0", "1", "4", "0", "7", "4", "0", "0", "0", ";">>)
    /\ probe.line.what = "VFO A FREQ"
    /\ probe.line.mhz = 14 /\ probe.line.rem = 74000

---------------------------------------------------------------------------
(* The CI-V decoder on single frames: specification SpecCiv                *)

\* The longest payload (the bytes between cmd and FD) of the frames.
MaxPayload == 6

\* The commands: ACK, NAK, SET FREQ, READ FREQ, SET MODE, READ MODE and one
\* the decoder has no rule for.
CivCmds == {\hFA, \hFB, \h00, \h03, \h01, \h04, \h05}

\* Payload byte 0: the nine mode codes, and codes the table lacks.
CivModeBytes == (0..9) \cup {\h0A, \h10, \hFF}

\* Payload byte 1: filter codes.
CivFiltBytes == {\h00, \h01, \h02}

\* The payload of n bytes that starts with a and b and goes on with
\* 00 14 00 33, repeated.
CivPayload(n, a, b) ==
    [i \in 1..n |-> IF i = 1 THEN a
                    ELSE IF i = 2 THEN b
                    ELSE <<\h00, \h14, \h00, \h33>>[((i - 3) % 4) + 1]]

\* The frames FE FE E0 94 <cmd> <payload> FD of 6 to 6 + MaxPayload bytes.
CivFrames ==
    {<<\hFE, \hFE, \hE0, \h94, cmd>> \o CivPayload(n, a, b) \o <<\hFD>> :
        cmd \in CivCmds, n \in 0..MaxPayload, a \in CivModeBytes, b \in CivFiltBytes}

InitCiv ==
    /\ EngineInit
    /\ \E f \in CivFrames, d \in {"RX", "TX"} :
          probe = [op |-> "civ", frame |-> f, dir |-> d, stage |-> 0, line |-> <<>>]

\* decodeAndPrintCivFrame(civ, civLen, dirTag, false)
CivDecode ==
    /\ probe.op = "civ"
    /\ probe.stage = 0
    /\ probe' = [probe EXCEPT !.stage = 1,
                              !.line = decodeAndPrintCivFrame(probe.frame, probe.dir, FALSE)]
    /\ UNCHANGED engineVars

\* The same frame as the radio sends it: through onRxByte, byte by byte, and
\* flushed by the gap check of loop() once the gap has passed.
CivIngest ==
    /\ probe.op = "civ"
    /\ probe.stage = 1
    /\ probe.dir = "RX"
    /\ Len(probe.frame) <= RX_BUF_MAX
    /\ LET S1 == DrainRx([Cur EXCEPT !.wire = probe.frame])
       IN  Commit(GapCheck([S1 EXCEPT !.now = @ + S1.g.rxGapFlushMs + 1]))
    /\ probe' = [probe EXCEPT !.stage = 2]
    /\ UNCHANGED <<pc, ingested, nArrived, nCmds, nTicks>>

NextCiv == CivDecode \/ CivIngest

SpecCiv == InitCiv /\ [][NextCiv]_vars

\* The line prints FILT=: the two mode rules do, and no other.
FiltShown(L) == L.what \in {"MODE", "SET MODE"}

\* C19: a frame of six bytes or more is decoded to one line with its to,
\* from and cmd, and by cmd and length: ACK exactly for FA and length 6, NAK
\* exactly for FB and length 6, a frequency exactly for 00 (SET FREQ) and 03
\* (FREQ) with length 11 or more, a mode exactly for 01 (SET MODE) and 04
\* (MODE) with length 7 or more; for every other cmd and length the line has
\* the header and nothing of the payload.  A frame the radio sends is
\* decoded the same by its flush.
C19_CivClassification ==
    (probe.op = "civ" /\ probe.stage >= 1) =>
       LET f   == probe.frame
           n   == Len(f)
           cmd == f[5]
           L   == probe.line[1]
       IN  /\ Len(probe.line) = 1
           /\ L.dir = probe.dir
           /\ L.to = f[3] /\ L.from = f[4] /\ L.cmd = cmd
           /\ L.what = "ACK (FA)" <=> (cmd = \hFA /\ n = 6)
           /\ L.what = "NAK (FB)" <=> (cmd = \hFB /\ n = 6)
           /\ L.what = "SET FREQ" <=> (cmd = \h00 /\ n >= 11)
           /\ L.what = "FREQ" <=> (cmd = \h03 /\ n >= 11)
           /\ L.what = "SET MODE" <=> (cmd = \h01 /\ n >= 7)
           /\ L.what = "MODE" <=> (cmd = \h04 /\ n >= 7)
           /\ L.what \in {"ACK (FA)", "NAK (FB)", "SET FREQ", "FREQ", "SET MODE", "MODE", ""}
           /\ L.what \notin {"SET FREQ", "FREQ"} => (~L.err /\ L.mhz = 0 /\ L.rem = 0)
           /\ ~FiltShown(L) => (L.mode = "" /\ L.filt = 0)
           /\ probe.stage = 2 =>
                 /\ Len(rxLog) = 1
                 /\ rxLog[1].handed = f
                 /\ rxLog[1].civ = probe.line

\* The radio sent a frame of command FA and seven bytes, and its flush
\* decoded it to the header alone.
C19_Witness ==
    /\ probe.op = "civ" /\ probe.stage = 2
    /\ probe.frame = <<\hFE, \hFE, \hE0, \h94, \hFA, \h00, \hFD>>
    /\ Len(rxLog) = 1
    /\ rxLog[1].civ[1].what = ""
    /\ rxLog[1].civ[1].cmd = \hFA

\* The mode table of the claim.
CivModeTable(b) ==
    CASE b = 0 -> "LSB" [] b = 1 -> "USB" [] b = 2 -> "AM" [] b = 3 -> "CW"
      [] b = 4 -> "RTTY" [] b = 5 -> "FM" [] b = 6 -> "WFM" [] b = 7 -> "CW-R"
      [] b = 8 -> "RTTY-R" [] OTHER -> "UNKNOWN"

\* C20 (amended): for a frame of cmd 01 or 04 and seven bytes or more, the
\* line has the mode of the nine-entry table for payload byte 0, UNKNOWN for
\* every other value, and is never a decode error; and it always has FILT=:
\* payload byte 1 when the frame has eight bytes or more, 00 when it has
\* seven.
C20_ModeDecode ==
    (probe.op = "civ" /\ probe.stage >= 1
       /\ probe.frame[5] \in {\h01, \h04} /\ Len(probe.frame) >= 7) =>
       LET f == probe.frame
           L == probe.line[1]
       IN  /\ L.mode = CivModeTable(f[6])
           /\ ~L.err
           /\ FiltShown(L)
           /\ L.filt = (IF Len(f) >= 8 THEN f[7] ELSE 0)

\* The radio sent a READ MODE answer of seven bytes with mode 0A, and its
\* flush decoded it as UNKNOWN with FILT=00.
C20_Witness ==
    /\ probe.op = "civ" /\ probe.stage = 2
    /\ probe.frame = <<\hFE, \hFE, \hE0, \h94, \h04, \h0A, \hFD>>
    /\ Len(rxLog) = 1
    /\ rxLog[1].civ[1].what = "MODE"
    /\ rxLog[1].civ[1].mode = "UNKNOWN"
    /\ ~rxLog[1].civ[1].err
    /\ rxLog[1].civ[1].filt = 0

\* C20 as stated: the mode as in the table, and a filter code reported only
\* when payload byte 1 is present, and then that byte.
C20_FilterOnlyWhenPresent ==
    (probe.op = "civ" /\ probe.stage >= 1
       /\ probe.frame[5] \in {\h01, \h04} /\ Len(probe.frame) >= 7) =>
       LET f == probe.frame
           L == probe.line[1]
       IN  /\ L.mode = CivModeTable(f[6])
           /\ ~L.err
           /\ FiltShown(L) <=> Len(f) >= 8
           /\ Len(f) >= 8 => L.filt = f[7]


---------------------------------------------------------------------------
(* The frame loop on any buffer, on the RX and on the TX path:              *)
(* specification SpecScan                                                   *)

\* The longest buffer the frame loop is run on.
MaxScanLen == 7

\* The bytes of the buffers: the sentinels and a command.
ScanBytes == {\hFE, \hFD, \h03}

\* The buffers: every sequence of ScanBytes up to MaxScanLen bytes; those
\* sent with sendHexLine hold at most TX_MAX_BYTES bytes.
ScanBuffers == UNION {[1..n -> ScanBytes] : n \in 0..MaxScanLen}

\* The loop is about to run on p: in flushRxLine, with p in the RX buffer,
\* or in txPrintCommon, with p just transmitted by sendHexLine.
InitScan ==
    /\ EngineInit
    /\ \E p \in ScanBuffers : \E dir \in {"RX", "TX"} :
          /\ dir = "TX" => Len(p) <= TX_MAX_BYTES
          /\ probe = [op |-> "scan", dir |-> dir, p |-> p, cursor |-> 0, turns |-> 0,
                      spans |-> <<>>, frames |-> <<>>, done |-> FALSE, printed |-> FALSE]

\* One turn of while (cursor < len): findCivFrame from the cursor; a span
\* found is handed to decodeAndPrintCivFrame and the cursor put behind it,
\* else the loop ends.
ScanStep ==
    /\ probe.op = "scan"
    /\ ~probe.done
    /\ LET f == ScanAt(probe.p, probe.cursor)
       IN  IF probe.cursor < Len(probe.p) /\ f.found
           THEN probe' = [probe EXCEPT !.spans = Append(@, <<f.s, f.e>>),
                                        !.frames = Append(@, Slice(probe.p, f.s, f.e)),
                                        !.cursor = f.e + 1,
                                        !.turns = @ + 1]
           ELSE probe' = [probe EXCEPT !.done = TRUE]
    /\ UNCHANGED engineVars

\* flushRxLine as a whole on the buffer p (protocol ICOM, decode on, no
\* transmission so far).
ScanFlush ==
    /\ probe.op = "scan" /\ probe.dir = "RX"
    /\ probe.done /\ ~probe.printed
    /\ Commit(flushRxLine([Cur EXCEPT !.gRxBuf = probe.p]))
    /\ probe' = [probe EXCEPT !.printed = TRUE]
    /\ UNCHANGED <<pc, ingested, nArrived, nCmds, nTicks>>

\* txPrintCommon as a whole on the bytes p, called by sendHexLine.
ScanTx ==
    /\ probe.op = "scan" /\ probe.dir = "TX"
    /\ probe.done /\ ~probe.printed
    /\ Commit(txPrintCommon(Cur, probe.p, FALSE, <<>>))
    /\ probe' = [probe EXCEPT !.printed = TRUE]
    /\ UNCHANGED <<pc, ingested, nArrived, nCmds, nTicks>>

NextScan == ScanStep \/ ScanFlush \/ ScanTx

\* The loop is straight-line code: a turn that can be taken is taken.
SpecScan == InitScan /\ [][NextScan]_vars /\ WF_probe(ScanStep)

\* The decode lines of the spans fs, each decoded on its own with tag dir.
DecodedSpans(fs, dir) ==
    Flatten([k \in 1..Len(fs) |-> decodeAndPrintCivFrame(fs[k], dir, FALSE)])

\* The span f begins with FE FE, ends with FD and has three bytes or more.
SpanShape(f) ==
    /\ Len(f) >= 3
    /\ f[1] = \hFE /\ f[2] = \hFE
    /\ f[Len(f)] = \hFD

\* C21 (amended): every span the frame loop hands to decodeAndPrintCivFrame,
\* on the RX and on the TX path, begins with FE FE, ends with FD and has
\* three bytes or more; the decoder prints a line for a span exactly when it
\* has six bytes or more, and the spans it prints for are CI-V frames.  The
\* reports of flushRxLine and of txPrintCommon hold the lines of these spans
\* and no other.
C21_SpansHandedToDecoder ==
    probe.op = "scan" =>
       /\ \A k \in 1..Len(probe.frames) :
             LET f == probe.frames[k]
             IN  /\ SpanShape(f)
                 /\ (decodeAndPrintCivFrame(f, probe.dir, FALSE) # <<>>) <=> Len(f) >= CIV_MIN_LEN
                 /\ Len(f) >= CIV_MIN_LEN <=> isCivFrame(f)
       /\ probe.done => probe.frames = ExtractFrames(probe.p)
       /\ (probe.printed /\ probe.dir = "RX" /\ Len(probe.p) > 0) =>
             /\ Len(rxLog) = 1
             /\ rxLog[1].civ = DecodedSpans(probe.frames, "RX")
       /\ (probe.printed /\ probe.dir = "TX") =>
             /\ Len(txLog) = 1
             /\ txLog[1].civ = DecodedSpans(probe.frames, "TX")

\* The buffer FE FE FD FE FE 03 FD was flushed: the loop handed the spans
\* FE FE FD and FE FE 03 FD to the decoder, which printed nothing.
C21_Witness ==
    /\ probe.op = "scan" /\ probe.dir = "RX" /\ probe.printed
    /\ probe.p = <<\hFE, \hFE, \hFD, \hFE, \hFE, \h03, \hFD>>
    /\ probe.frames = << <<\hFE, \hFE, \hFD>>, <<\hFE, \hFE, \h03, \hFD>> >>
    /\ Len(rxLog) = 1
    /\ rxLog[1].civ = <<>>

\* C21 as stated: every span handed to the decoder has six bytes or more,
\* begins with FE FE and ends with FD.
C21_SpansAreFrames ==
    probe.op = "scan" => \A k \in 1..Len(probe.frames) : isCivFrame(probe.frames[k])


\* C25: the frame loop terminates.  A turn that takes a span puts the cursor
\* behind it: the span begins at or behind the old cursor and ends two
\* positions or more behind it, so the cursor grows, and it never passes the
\* end of the buffer; the loop has ended after at most one turn per three
\* bytes, and it does end.  The spans lie in the buffer one behind the other
\* without overlap, and none holds an FD before its last byte; they are the
\* spans flushRxLine and txPrintCommon extract.
C25_ScanTerminates ==
    /\ [](probe.op = "scan" =>
            /\ probe.cursor <= Len(probe.p)
            /\ probe.turns = Len(probe.spans)
            /\ 3 * probe.turns <= probe.cursor
            /\ \A k \in 1..Len(probe.spans) :
                  LET sp == probe.spans[k]
                  IN  /\ 0 <= sp[1] /\ sp[1] + 2 <= sp[2] /\ sp[2] < Len(probe.p)
                      /\ \A i \in sp[1]..(sp[2] - 1) : At(probe.p, i) # \hFD
                      /\ At(probe.p, sp[2]) = \hFD
                      /\ k > 1 => probe.spans[k - 1][2] < sp[1]
            /\ probe.done => probe.spans = FrameSpans(probe.p))
    /\ [][(probe.op = "scan" /\ probe'.turns # probe.turns) =>
            LET sp == probe'.spans[Len(probe'.spans)]
            IN  /\ probe'.turns = probe.turns + 1
                /\ sp[1] >= probe.cursor
                /\ sp[2] >= probe.cursor + 2
                /\ probe'.cursor = sp[2] + 1
                /\ probe'.cursor > probe.cursor
                /\ probe'.cursor <= Len(probe.p)]_vars
    /\ (probe.op = "scan") ~> (probe.op = "scan" /\ probe.done)

\* The loop ended on FE FE FD 03 FE FE FD after two turns, with the spans
\* 0..2 and 4..6 and the cursor at the end of the buffer.
C25_Witness ==
    /\ probe.op = "scan" /\ probe.done
    /\ probe.p = <<\hFE, \hFE, \hFD, \h03, \hFE, \hFE, \hFD>>
    /\ probe.turns = 2
    /\ probe.spans = << <<0, 2>>, <<4, 6>> >>
    /\ probe.cursor = Len(probe.p)


---------------------------------------------------------------------------
(* A burst that overruns the RX buffer: specification SpecFull             *)

\* The line delivers at most MaxFullArrivals chunks, the operator enters at
\* most MaxFullCmds lines and the clock is advanced at most MaxFullTicks
\* times.
MaxFullArrivals == 3
MaxFullCmds     == 1
MaxFullTicks    == 1

\* A letter, the Elecraft terminator, and two frames that fill the buffer.
FullChunks == {Codes(<<"A">>), SEMI, F_READFREQ \o F_ACK}

FullCmdLines == {Codes(<<"P", "R", "O", "T", "O", " ", "E", "L", "E">>)}

NextFull ==
    \/ Tick(RX_GAP_FLUSH_MS + 1, MaxFullTicks)
    \/ \E c \in FullChunks : Arrive(c, MaxFullArrivals)
    \/ LoopRx
    \/ \E line \in FullCmdLines : LoopCmd(line, MaxFullCmds)
    \/ LoopEnd

SpecFull == Init /\ [][NextFull]_vars

\* The bytes a full buffer is offered in C22.
FullBytes == {SEMI[1], 65, \hFE, \hFD}

\* The number of bytes flushed up to and including report k.
RECURSIVE FlushedThrough(_)
FlushedThrough(k) == IF k = 0 THEN 0 ELSE FlushedThrough(k - 1) + Len(rxLog[k].handed)

\* The spans the frame loops of all the reports extracted, and those the
\* loop would extract from the buffer, as positions in the bytes received.
SpansInReceived ==
    UNION {{<<FlushedThrough(k - 1) + (Len(rxLog[k].handed) - Len(rxLog[k].shown)) + sp[1],
              FlushedThrough(k - 1) + (Len(rxLog[k].handed) - Len(rxLog[k].shown)) + sp[2]>> :
               sp \in {FrameSpans(rxLog[k].shown)[n] : n \in 1..Len(FrameSpans(rxLog[k].shown))}} :
           k \in 1..Len(rxLog)}
    \cup {<<FlushedThrough(Len(rxLog)) + sp[1], FlushedThrough(Len(rxLog)) + sp[2]>> :
             sp \in {FrameSpans(gRxBuf)[n] : n \in 1..Len(FrameSpans(gRxBuf))}}

\* The frames among the bytes received that a flush of a full buffer cut:
\* <<a, b, k>> for a frame at the positions a .. b of which report k, of a
\* full buffer, took the bytes up to some position before b.
CutFrames ==
    {t \in (0..(Len(ingested) - 1)) \X (0..(Len(ingested) - 1)) \X (1..Len(rxLog)) :
        /\ t[1] < t[2]
        /\ isCivFrame(Slice(ingested, t[1], t[2]))
        /\ \A i \in t[1]..(t[2] - 1) : At(ingested, i) # \hFD
        /\ Len(rxLog[t[3]].handed) = RX_BUF_MAX
        /\ t[1] < FlushedThrough(t[3])
        /\ FlushedThrough(t[3]) <= t[2]}

\* C22: onRxByte called with a full buffer and within the gap threshold
\* flushes once, exactly the RX_BUF_MAX bytes of the buffer, before it stores
\* the byte; on return the buffer holds that byte alone, or, the byte being
\* the terminator under protocol ELE, nothing, the byte having been flushed
\* in its turn.  A CI-V frame that the flush of a full buffer cuts has its
\* head at the end of that report and its tail in what follows, and no frame
\* loop extracts it.
C22_ForcedFlushAtCapacity ==
    /\ (gRxLen = RX_BUF_MAX /\ ~GapExceeded(Cur)) =>
          \A b \in FullBytes :
             LET T     == onRxByte(Cur, b)
                 fresh == SubSeq(T.rxLog, Len(rxLog) + 1, Len(T.rxLog))
             IN  /\ Len(fresh) >= 1
                 /\ fresh[1].handed = gRxBuf
                 /\ Len(fresh[1].handed) = RX_BUF_MAX
                 /\ IF b = SEMI[1] /\ g.proto = "ELE"
                    THEN /\ Len(fresh) = 2
                         /\ fresh[2].handed = <<b>>
                         /\ T.gRxBuf = <<>>
                    ELSE /\ Len(fresh) = 1
                         /\ T.gRxBuf = <<b>>
    /\ Flatten(HandedOf(rxLog)) \o gRxBuf = ingested
    /\ \A t \in CutFrames :
          LET cut  == FlushedThrough(t[3])
              head == Slice(ingested, t[1], cut - 1)
              h    == rxLog[t[3]].handed
          IN  /\ SubSeq(h, Len(h) - Len(head) + 1, Len(h)) = head
              /\ <<t[1], t[2]>> \notin SpansInReceived

\* A letter and then READ FREQ and an ACK came in one burst: the forced flush
\* took the letter, READ FREQ and the first five bytes of the ACK and decoded
\* one frame; the FD stayed behind and the gap flush reported it alone.
C22_Witness ==
    /\ g.proto = "ICOM"
    /\ ingested = Codes(<<"A">>) \o F_READFREQ \o F_ACK
    /\ Len(rxLog) = 2
    /\ rxLog[1].handed = SubSeq(ingested, 1, RX_BUF_MAX)
    /\ Len(rxLog[1].civ) = 1
    /\ rxLog[1].civ[1].cmd = \h03
    /\ rxLog[1].at = 0
    /\ rxLog[2].handed = <<\hFD>>
    /\ rxLog[2].civ = <<>>
    /\ <<7, 12, 1>> \in CutFrames


---------------------------------------------------------------------------
(* The session configuration: specification SpecCfg                        *)

\* The line delivers at most MaxCfgArrivals chunks, the operator enters at
\* most MaxCfgCmds lines and the clock is advanced at most MaxCfgTicks times.
MaxCfgArrivals == 1
MaxCfgCmds     == 1
MaxCfgTicks    == 1

\* The command word with an argument behind a blank.
Arg(word, arg) == word \o Codes(<<" ">>) \o Codes(arg)

\* The operator lines of SpecCfg: an accepted and a rejected configuration
\* command, a protocol change and a send.
CfgCmdLines ==
    {Arg(W_GAP, <<"1">>), Arg(W_PROTO, <<"E", "L", "E">>), Arg(W_PROTO, <<"X">>), W_FREQQ}

\* A letter, and a letter with the terminator behind it.
CfgChunks == {Codes(<<"A">>), Codes(<<"A", ";">>)}

NextCfg ==
    \/ Tick(2, MaxCfgTicks)
    \/ \E c \in CfgChunks : Arrive(c, MaxCfgArrivals)
    \/ LoopRx
    \/ \E line \in CfgCmdLines : LoopCmd(line, MaxCfgCmds)
    \/ LoopEnd

SpecCfg == Init /\ [][NextCfg]_vars

\* Configuration commands with a valid argument, each with the field it sets
\* and the value the field has afterwards.
CfgAccepted ==
    << <<Arg(W_GAP, <<"1">>), "rxGapFlushMs", 1>>,
       <<Arg(W_GAP, <<"1", "0", "0", "0", "0">>), "rxGapFlushMs", 10000>>,
       <<Arg(W_BAUD, <<"3", "0", "0">>), "rsBaud", 300>>,
       <<Arg(W_BAUD, <<"1", "0", "0", "0", "0", "0", "0">>), "rsBaud", 1000000>>,
       <<Arg(W_PROTO, <<"I", "C", "O", "M">>), "proto", "ICOM">>,
       <<Arg(W_PROTO, <<"e", "l", "e">>), "proto", "ELE">>,
       <<Arg(W_PROTO, <<"E", "L", "E", "C", "R", "A", "F", "T">>), "proto", "ELE">>,
       <<Arg(W_TXFMT, <<"A", "S", "C", "I", "I">>), "txFormat", "FMT_ASCII">>,
       <<Arg(W_FORMAT, <<"h", "e", "x">>), "txFormat", "FMT_HEX">>,
       <<Arg(W_ECHO, <<"0">>), "civEchoFilter", FALSE>>,
       <<Arg(W_CIV, <<"0">>), "civDecode", FALSE>>,
       <<Arg(W_TS, <<"0">>), "showTsMs", FALSE>>,
       <<Arg(W_ASCII, <<"0">>), "showAscii", FALSE>> >>

\* Configuration commands with an invalid argument.
CfgRejected ==
    {W_PROTO, Arg(W_PROTO, <<"X">>), Arg(W_PROTO, <<"E", "L", "E", "C">>),
     W_TXFMT, Arg(W_TXFMT, <<"X">>), Arg(W_FORMAT, <<"H", "E", "X", "A">>),
     W_GAP, Arg(W_GAP, <<"0">>), Arg(W_GAP, <<"-", "5">>),
     Arg(W_GAP, <<"1", "0", "0", "0", "1">>),
     W_BAUD, Arg(W_BAUD, <<"2", "9", "9">>),
     Arg(W_BAUD, <<"1", "0", "0", "0", "0", "0", "1">>)}

\* Lines that are no configuration command: queries, the comfort commands,
\* an accepted and a rejected raw send.
CfgOtherLines ==
    {W_INFO, W_HELP, W_RESTART, W_FREQQ, W_MODEQ, Arg(W_PTT, <<"1">>),
     L_READFREQ, Codes(<<"4", "G">>)}

\* The report flushRxLine prints in state T, by the configuration of T.
ReportFollows(T) ==
    LET R == RxReport(T)
    IN  /\ R.ts = T.g.showTsMs
        /\ R.ascii = T.g.showAscii
        /\ R.handed = T.gRxBuf
        /\ R.civ = (IF T.g.proto = "ICOM" /\ T.g.civDecode
                    THEN DecodeRxFrames(R.shown, T.g.civEchoFilter, T.gLastTx, T.gLastTxIsCiv)
                    ELSE <<>>)
        /\ R.ele = (IF T.g.proto = "ELE" THEN DecodeRxEle(R.shown) ELSE <<>>)

\* C23: the configuration changes only in a console step.  The RX half of a
\* pass, onRxByte, flushRxLine, the queries and the sends leave it as it is,
\* and so does a PROTO, TXFMT, GAP or BAUD command with an invalid argument.
\* A configuration command with a valid argument sets its field and no
\* other, and the next gap test, the next onRxByte and the next flush go by
\* the new value, for the bytes in the buffer too.
C23_ConfigOnlyByCommand ==
    /\ [](/\ \A b \in FullBytes : onRxByte(Cur, b).g = g
          /\ flushRxLine(Cur).g = g
          /\ GapCheck(DrainRx(Cur)).g = g
          /\ \A line \in CfgRejected \cup CfgOtherLines : handleCommand(Cur, line).g = g
          /\ \A n \in 1..Len(CfgAccepted) :
                LET c == CfgAccepted[n]
                    T == handleCommand(Cur, c[1])
                IN  /\ T.g = [g EXCEPT ![c[2]] = c[3]]
                    /\ T.gRxBuf = gRxBuf
                    /\ GapExceeded(T) <=>
                          (gRxLen > 0 /\ T.now - gLastRxMs > T.g.rxGapFlushMs)
                    /\ gRxLen > 0 =>
                          /\ ReportFollows(T)
                          /\ flushRxLine(T).rxLog = Append(rxLog, RxReport(T))
                          /\ (onRxByte(T, SEMI[1]).gRxBuf = <<>>) <=> (T.g.proto = "ELE"))
    /\ [][g' # g => (pc = "console" /\ pc' = "console" /\ nCmds' = nCmds + 1)]_vars
    /\ [][(pc = "rx" /\ pc' = "console") =>
             \A i \in (Len(rxLog) + 1)..Len(rxLog') :
                /\ rxLog'[i].ts = g.showTsMs
                /\ rxLog'[i].ele # <<>> => g.proto = "ELE"
                /\ rxLog'[i].at - gLastRxMs > g.rxGapFlushMs
                      \/ (g.proto = "ELE" /\ rxLog'[i].handed[Len(rxLog'[i].handed)] = SEMI[1])]_vars

\* A letter came in, two milliseconds later the operator gave GAP 1, and the
\* gap check of the next pass flushed the letter by the new threshold.
C23_Witness ==
    /\ g = [DefaultConfig EXCEPT !.rxGapFlushMs = 1]
    /\ nCmds = 1
    /\ ingested = Codes(<<"A">>)
    /\ gLastRxMs = 0
    /\ Len(rxLog) = 1
    /\ rxLog[1].handed = ingested
    /\ rxLog[1].at = 2

=============================================================================
